---- MODULE Spec2Model ----
(***************************************************************************)
(* Model of the chat widget's abuse-control layer: the sliding-window      *)
(* RateLimiter of security-utils (checkLimit, cleanup, the three named     *)
(* limiter instances and their cleanup interval) and the widget handlers   *)
(* of ChatbotCore / AdvancedChatbotCore that consult it.                   *)
(*                                                                         *)
(* Time is Date.now() in milliseconds.  A JS Map<string, number[]> is a    *)
(* function whose DOMAIN is the set of keys present in the map.            *)
(***************************************************************************)
EXTENDS Integers, Sequences, FiniteSets, TLC

VARIABLES
    now,         \* the value Date.now() returns
    hasWindow,   \* typeof window !== 'undefined' in this environment
    timestamps,  \* limiter name -> that instance's `timestamps` Map
    ret,         \* the limiter operation performed by the last step, and its result
    calls,       \* history: limiter -> key -> the logged checkLimit calls
    solo,        \* history: limiter -> key -> the list an instance that only ever
                 \* saw this key's calls (and the same cleanups) would hold
    cleanupRan,  \* history: limiter -> cleanup() has run on it
    online,      \* navigator.onLine
    constructed, \* widget -> new AdvancedChatbotCore(...) has run
    config,      \* widget -> this.config
    container,   \* widget -> this.container and what was added to it
    isOpen,      \* widget -> this.isOpen
    isOnline,    \* widget -> this.isOnline
    messages,    \* widget -> this.messages
    eventListeners, \* widget -> this.eventListeners
    timers,      \* widget -> the pending setTimeout callbacks of sendMessage
    inflight,    \* widget -> the fetch calls awaiting their response
    outbound     \* history: every fetch issued so far

limiterVars == <<now, hasWindow, timestamps, ret, calls, solo, cleanupRan>>

widgetVars == <<online, constructed, config, container, isOpen, isOnline, messages,
                eventListeners, timers, inflight, outbound>>

-----------------------------------------------------------------------------
(* Program constants *)

\* checkLimit's default for windowMs
DefaultWindowMs == 60000

\* cleanup's retention horizon
oneHour == 3600000

\* The three exported instances
Limiters == {"messageLimiter", "uploadLimiter", "globalLimiter"}

-----------------------------------------------------------------------------
(* Bounds and input sets *)

\* number of checkLimit calls logged per key in the logged specifications
MaxCalls == 5

\* number of messages a widget holds or has a callback pending for, and
\* number of checkLimit calls the widgets make on a limiter beyond its limit
MaxMessages == 3
MaxExtraCalls == 1

\* keys, limits and windows a direct caller of the exported API passes
Keys == {"a", "b"}
AllKeys == Keys \cup {"user", "w1", "w2"}
Limits == {0, 1, 2}
Windows == {1000, DefaultWindowMs, oneHour + 1}

\* the instants at which the clock is observed (non-decreasing clock)
Times == {0, 999, 1000, 1999, 3600000, 3600999}

-----------------------------------------------------------------------------
(* Map helpers: Map.get(key) || [], Map.set *)

EmptyMap == [k \in {} |-> <<>>]

Lookup(m, key) == IF key \in DOMAIN m THEN m[key] ELSE <<>>

MapSet(m, key, v) == [k \in (DOMAIN m) \cup {key} |-> IF k = key THEN v ELSE m[k]]

-----------------------------------------------------------------------------
(* Strings.  A JS string is the sequence of its characters; a JS value is  *)
(* a record tagged with its typeof.                                        *)

Str(s) == [t |-> "string", v |-> s]
Num(n) == [t |-> "number", v |-> n]
Bool(b) == [t |-> "boolean", v |-> b]
Arr(a) == [t |-> "array", v |-> a]
Obj(o) == [t |-> "object", v |-> o]
Fn == [t |-> "function", v |-> 0]
Null == [t |-> "null", v |-> 0]
Undefined == [t |-> "undefined", v |-> 0]

\* String.prototype.trim()
IsSpace(c) == c \in {" ", "\t", "\n", "\r"}

RECURSIVE TrimStart(_)
TrimStart(s) ==
    IF s # <<>> /\ IsSpace(Head(s)) THEN TrimStart(Tail(s)) ELSE s

RECURSIVE TrimEnd(_)
TrimEnd(s) ==
    IF s # <<>> /\ IsSpace(s[Len(s)]) THEN TrimEnd(SubSeq(s, 1, Len(s) - 1)) ELSE s

Trim(s) == TrimEnd(TrimStart(s))

\* String.prototype.toLowerCase() on ASCII letters
UpperCase ==
    <<"A", "B", "C", "D", "E", "F", "G", "H", "I", "J", "K", "L", "M",
      "N", "O", "P", "Q", "R", "S", "T", "U", "V", "W", "X", "Y", "Z">>

LowerCase ==
    <<"a", "b", "c", "d", "e", "f", "g", "h", "i", "j", "k", "l", "m",
      "n", "o", "p", "q", "r", "s", "t", "u", "v", "w", "x", "y", "z">>

ToLowerChar(c) ==
    IF \E i \in 1..Len(UpperCase) : UpperCase[i] = c
    THEN LowerCase[CHOOSE i \in 1..Len(UpperCase) : UpperCase[i] = c]
    ELSE c

toLowerCase(s) == [i \in 1..Len(s) |-> ToLowerChar(s[i])]

\* String.prototype.substring(0, n)
Substring0(s, n) == IF Len(s) <= n THEN s ELSE SubSeq(s, 1, n)

GreetingDefault ==
    <<"H", "e", "l", "l", "o", "!", " ", "H", "o", "w", " ", "c", "a", "n",
    " ", "I", " ", "h", "e", "l", "p", " ", "y", "o", "u", " ", "t", "o", "d",
    "a", "y", "?">>

PlaceholderDefault ==
    <<"T", "y", "p", "e", " ", "y", "o", "u", "r", " ", "m", "e", "s", "s",
    "a", "g", "e", ".", ".", ".">>

MsgTooLong ==
    <<"M", "e", "s", "s", "a", "g", "e", " ", "i", "s", " ", "t", "o", "o",
    " ", "l", "o", "n", "g", ".", " ", "M", "a", "x", "i", "m", "u", "m", " ",
    "l", "e", "n", "g", "t", "h", " ", "i", "s", " ", "1", "0", "0", "0", " ",
    "c", "h", "a", "r", "a", "c", "t", "e", "r", "s", ".">>

MsgSlowDown ==
    <<"P", "l", "e", "a", "s", "e", " ", "s", "l", "o", "w", " ", "d", "o",
    "w", "n", ".", " ", "Y", "o", "u", " ", "c", "a", "n", " ", "s", "e", "n",
    "d", " ", "u", "p", " ", "t", "o", " ", "1", "0", " ", "m", "e", "s", "s",
    "a", "g", "e", "s", " ", "p", "e", "r", " ", "m", "i", "n", "u", "t", "e",
    ".">>

MsgFileTooLarge ==
    <<"F", "i", "l", "e", " ", "i", "s", " ", "t", "o", "o", " ", "l", "a",
    "r", "g", "e", ".", " ", "M", "a", "x", "i", "m", "u", "m", " ", "s", "i",
    "z", "e", " ", "a", "l", "l", "o", "w", "e", "d", " ", "i", "s", " ", "1",
    "0", "M", "B", ".">>

MsgFileType ==
    <<"I", "n", "v", "a", "l", "i", "d", " ", "f", "i", "l", "e", " ", "t",
    "y", "p", "e", ".", " ", "O", "n", "l", "y", " ", "J", "P", "E", "G", ",",
    " ", "P", "N", "G", ",", " ", "P", "D", "F", ",", " ", "a", "n", "d", " ",
    "T", "X", "T", " ", "f", "i", "l", "e", "s", " ", "a", "r", "e", " ", "a",
    "l", "l", "o", "w", "e", "d", ".">>

MsgUploadSlowDown ==
    <<"P", "l", "e", "a", "s", "e", " ", "s", "l", "o", "w", " ", "d", "o",
    "w", "n", ".", " ", "Y", "o", "u", " ", "c", "a", "n", " ", "u", "p", "l",
    "o", "a", "d", " ", "u", "p", " ", "t", "o", " ", "3", " ", "f", "i", "l",
    "e", "s", " ", "p", "e", "r", " ", "m", "i", "n", "u", "t", "e", ".">>

MsgUploadFailed ==
    <<"S", "o", "r", "r", "y", ",", " ", "f", "i", "l", "e", " ", "u", "p",
    "l", "o", "a", "d", " ", "f", "a", "i", "l", "e", "d", ".", " ", "P", "l",
    "e", "a", "s", "e", " ", "t", "r", "y", " ", "a", "g", "a", "i", "n",
    ".">>

MsgQuickTooLong ==
    <<"Q", "u", "i", "c", "k", " ", "r", "e", "p", "l", "y", " ", "i", "s",
    " ", "t", "o", "o", " ", "l", "o", "n", "g", ".">>

MsgBadApi ==
    <<"I", "n", "v", "a", "l", "i", "d", " ", "A", "P", "I", " ", "c", "o",
    "n", "f", "i", "g", "u", "r", "a", "t", "i", "o", "n", ".">>

MsgTooMany ==
    <<"P", "l", "e", "a", "s", "e", " ", "s", "l", "o", "w", " ", "d", "o",
    "w", "n", ".", " ", "T", "o", "o", " ", "m", "a", "n", "y", " ", "r", "e",
    "q", "u", "e", "s", "t", "s", ".">>

MsgWentWrong ==
    <<"S", "o", "r", "r", "y", ",", " ", "s", "o", "m", "e", "t", "h", "i",
    "n", "g", " ", "w", "e", "n", "t", " ", "w", "r", "o", "n", "g", ".", " ",
    "P", "l", "e", "a", "s", "e", " ", "t", "r", "y", " ", "a", "g", "a", "i",
    "n", ".">>

MsgOfflineDefault ==
    <<"S", "o", "r", "r", "y", ",", " ", "I", "'", "m", " ", "c", "u", "r",
    "r", "e", "n", "t", "l", "y", " ", "o", "f", "f", "l", "i", "n", "e", ".",
    " ", "P", "l", "e", "a", "s", "e", " ", "t", "r", "y", " ", "a", "g", "a",
    "i", "n", " ", "l", "a", "t", "e", "r", ".">>

MsgReceivedDefault ==
    <<"I", " ", "r", "e", "c", "e", "i", "v", "e", "d", " ", "y", "o", "u",
    "r", " ", "m", "e", "s", "s", "a", "g", "e", ".">>

UploadedPrefix ==
    <<"U", "p", "l", "o", "a", "d", "e", "d", ":", " ">>

Unnamed ==
    <<"u", "n", "n", "a", "m", "e", "d">>

Response1 ==
    <<"T", "h", "a", "n", "k", " ", "y", "o", "u", " ", "f", "o", "r", " ",
    "y", "o", "u", "r", " ", "m", "e", "s", "s", "a", "g", "e", ".", " ", "H",
    "o", "w", " ", "c", "a", "n", " ", "I", " ", "h", "e", "l", "p", " ", "y",
    "o", "u", " ", "f", "u", "r", "t", "h", "e", "r", "?">>

Response2 ==
    <<"I", " ", "u", "n", "d", "e", "r", "s", "t", "a", "n", "d", ".", " ",
    "L", "e", "t", " ", "m", "e", " ", "a", "s", "s", "i", "s", "t", " ", "y",
    "o", "u", " ", "w", "i", "t", "h", " ", "t", "h", "a", "t", ".">>

Response3 ==
    <<"T", "h", "a", "t", "'", "s", " ", "i", "n", "t", "e", "r", "e", "s",
    "t", "i", "n", "g", ".", " ", "C", "a", "n", " ", "y", "o", "u", " ", "t",
    "e", "l", "l", " ", "m", "e", " ", "m", "o", "r", "e", "?">>

Response4 ==
    <<"I", "'", "m", " ", "h", "e", "r", "e", " ", "t", "o", " ", "h", "e",
    "l", "p", "!", " ", "W", "h", "a", "t", " ", "w", "o", "u", "l", "d", " ",
    "y", "o", "u", " ", "l", "i", "k", "e", " ", "t", "o", " ", "k", "n", "o",
    "w", "?">>

AmpEntity ==
    <<"&", "a", "m", "p", ";">>

LtEntity ==
    <<"&", "l", "t", ";">>

GtEntity ==
    <<"&", "g", "t", ";">>

QuotEntity ==
    <<"&", "q", "u", "o", "t", ";">>

AposEntity ==
    <<"&", "#", "x", "2", "7", ";">>

\* the character U+00A0 and the entity the serialisation of a text node
\* writes for it
Nbsp == "nbsp"

NbspEntity ==
    <<"&", "n", "b", "s", "p", ";">>

SchemeHttp ==
    <<"h", "t", "t", "p">>

SchemeHttps ==
    <<"h", "t", "t", "p", "s">>

\* inputs: texts typed into the widget, configured or returned by the endpoint
TextHi ==
    <<"h", "i">>

TextMarkup ==
    <<"<", "b", ">", "\"", "T", "&", "C", "\"", "<", "/", "b", ">">>

TextPadded ==
    <<" ", "o", "k", " ">>

TextBlank ==
    <<" ">>

UrlApi ==
    <<"h", "t", "t", "p", "s", ":", "/", "/", "a", "p", "i", ".", "e", "x",
    "a", "m", "p", "l", "e", ".", "c", "o", "m", "/", "c", "h", "a", "t">>

UrlScript ==
    <<"j", "a", "v", "a", "s", "c", "r", "i", "p", "t", ":", "a", "l", "e",
    "r", "t", "(", "1", ")">>

NamePng ==
    <<"a", ".", "p", "n", "g">>

NameTraversal ==
    <<".", ".", "/", "x">>

-----------------------------------------------------------------------------
(* SecurityUtils: sanitizers and validators *)

\* what one character becomes: with `quotes` the five characters & < > " '
\* are replaced (the regex chain of the no-document branch); without, the
\* characters that the serialisation of a text node escapes (div.innerHTML):
\* & < > and U+00A0
EscapeChar(c, quotes) ==
    CASE c = "&" -> AmpEntity
      [] c = "<" -> LtEntity
      [] c = ">" -> GtEntity
      [] c = "\"" /\ quotes -> QuotEntity
      [] c = "'" /\ quotes -> AposEntity
      [] c = Nbsp /\ ~quotes -> NbspEntity
      [] OTHER -> <<c>>

RECURSIVE Escape(_, _)
Escape(s, quotes) ==
    IF Len(s) = 0 THEN <<>>
    ELSE IF Len(s) = 1 THEN EscapeChar(s[1], quotes)
    ELSE LET half == Len(s) \div 2
         IN  Escape(SubSeq(s, 1, half), quotes)
                 \o Escape(SubSeq(s, half + 1, Len(s)), quotes)

\* sanitizeHTML(input) in an environment where `document` exists or not
sanitizeHTML(input, hasDocument) ==
    IF input = <<>> THEN <<>>
    ELSE IF ~hasDocument THEN Escape(input, TRUE)
    ELSE Escape(input, FALSE)

\* sanitizeHTML(input) for any JS value: '' unless input is a non-empty string
sanitizeHTMLOf(input, hasDocument) ==
    IF input.t # "string" \/ input.v = <<>> THEN <<>>
    ELSE sanitizeHTML(input.v, hasDocument)

\* sanitizeAttribute(input): one pass replacing < > " ' &, then the cut
MaxAttributeLength == 1000

sanitizeAttribute(input) == Substring0(Escape(input, TRUE), MaxAttributeLength)

\* sanitizeAttribute(input) for any JS value
sanitizeAttributeOf(input) ==
    IF input.t # "string" \/ input.v = <<>> THEN <<>>
    ELSE sanitizeAttribute(input.v)

\* mutant of validateLength: the bound is off by one
validateLengthOffByOne(input, maxLength) == Len(input) <= maxLength + 1

\* validateLength(input, maxLength) for a string input
validateLength(input, maxLength) == Len(input) <= maxLength

\* validateFileSize(file, maxSize), validateFileType(file, allowedTypes)
validateFileSize(file, maxSize) == file.size <= maxSize

validateFileType(file, allowedTypes) == file.type # "" /\ file.type \in allowedTypes

\* sanitizeFileName: the four replacements, the cut and the trim
DangerousFileChars == {"/", "\\", ":", "*", "?", "\"", "<", ">", "|"}

ReplaceDangerous(s) ==
    [i \in 1..Len(s) |-> IF s[i] \in DangerousFileChars THEN "_" ELSE s[i]]

\* .replace(/\.\./, '_') without the g flag: only the first pair is replaced
ReplaceFirstDotDot(s) ==
    LET starts == {i \in 1..(Len(s) - 1) : s[i] = "." /\ s[i + 1] = "."}
    IN  IF starts = {} THEN s
        ELSE LET i == CHOOSE k \in starts : \A l \in starts : k <= l
             IN  SubSeq(s, 1, i - 1) \o <<"_">> \o SubSeq(s, i + 2, Len(s))

\* .replace(/\.\./g, '_'): the matches are found from left to right and do not
\* overlap, so in a run of dots the pairs start at the run's 1st, 3rd, ... dot;
\* each pair becomes one "_" and the last dot of a run of odd length stays
DotRunStart(s, i) ==
    CHOOSE j \in 1..i :
        /\ \A k \in j..i : s[k] = "."
        /\ j = 1 \/ s[j - 1] # "."

ReplaceDotDot(s) ==
    LET marked == [i \in 1..Len(s) |->
                     IF s[i] # "." THEN s[i]
                     ELSE IF (i - DotRunStart(s, i)) % 2 = 1 THEN ""
                     ELSE IF i < Len(s) /\ s[i + 1] = "." THEN "_"
                     ELSE "."]
        kept(c) == c # ""
    IN  SelectSeq(marked, kept)

RECURSIVE StripLeadingDots(_)
StripLeadingDots(s) ==
    IF s # <<>> /\ Head(s) = "." THEN StripLeadingDots(Tail(s)) ELSE s

MaxFileNameLength == 255

sanitizeFileName(fileName) ==
    IF fileName = <<>> THEN Unnamed
    ELSE LET r == Trim(Substring0(StripLeadingDots(ReplaceDotDot(
                      ReplaceDangerous(fileName))), MaxFileNameLength))
         IN  IF r = <<>> THEN Unnamed ELSE r

\* sanitizeFileName(fileName) for any JS value: 'unnamed' unless fileName is a
\* non-empty string
sanitizeFileNameOf(fileName) ==
    IF fileName.t # "string" \/ fileName.v = <<>> THEN Unnamed
    ELSE sanitizeFileName(fileName.v)

\* new URL(url): the scheme up to the first ":", and for http(s) the host
\* after the slashes; ok is FALSE where the constructor throws
RECURSIVE IndexOfAny(_, _, _)
IndexOfAny(s, cs, from) ==
    IF from > Len(s) THEN 0
    ELSE IF s[from] \in cs THEN from
    ELSE IndexOfAny(s, cs, from + 1)

RECURSIVE SkipSlashes(_, _)
SkipSlashes(s, from) ==
    IF from <= Len(s) /\ s[from] \in {"/", "\\"} THEN SkipSlashes(s, from + 1)
    ELSE from

\* the characters of s from position a to position b (none when b < a)
Slice(s, a, b) == IF b < a THEN <<>> ELSE SubSeq(s, a, b)

\* the last position of c in s[from..to], from - 1 when there is none
LastIndexIn(s, c, from, to) ==
    LET at == {i \in from..to : s[i] = c}
    IN  IF at = {} THEN from - 1 ELSE CHOOSE i \in at : \A j \in at : j <= i

ForbiddenHostChars == {" ", "<", ">", "^", "|", "%", "[", "]"}

Digits == {"0", "1", "2", "3", "4", "5", "6", "7", "8", "9"}

\* For http(s) the authority runs from behind the slashes to the first of
\* / \ ? #; the host starts behind its last "@" (what precedes is the user
\* info) and ends before the first ":" (what follows is the port, digits
\* only). IPv6 literals, IPv4 numbers and percent-encoded or non-ASCII hosts
\* are not modelled.
ParseURL(url) ==
    LET colon == IndexOfAny(url, {":"}, 1)
        scheme == toLowerCase(Slice(url, 1, colon - 1))
        special == scheme \in {SchemeHttp, SchemeHttps}
        authFrom == SkipSlashes(url, colon + 1)
        authEnd == LET e == IndexOfAny(url, {"/", "\\", "?", "#"}, authFrom)
                   IN  IF e = 0 THEN Len(url) ELSE e - 1
        hostFrom == LastIndexIn(url, "@", authFrom, authEnd) + 1
        hostEnd == LET e == IndexOfAny(Slice(url, 1, authEnd), {":"}, hostFrom)
                   IN  IF e = 0 THEN authEnd ELSE e - 1
        host == toLowerCase(Slice(url, hostFrom, hostEnd))
        port == Slice(url, hostEnd + 2, authEnd)
        failure == [ok |-> FALSE, protocol |-> <<>>, hostname |-> <<>>]
    IN  IF colon <= 1 \/ \E i \in 1..(colon - 1) : url[i] \in {"/", "?", "#", " ", "@"}
        THEN failure
        ELSE IF ~special
        THEN [ok |-> TRUE, protocol |-> scheme \o <<":">>, hostname |-> <<>>]
        ELSE IF host = <<>> \/ \E i \in 1..Len(host) : host[i] \in ForbiddenHostChars
        THEN failure
        ELSE IF \E i \in 1..Len(port) : port[i] \notin Digits
        THEN failure
        ELSE [ok |-> TRUE, protocol |-> scheme \o <<":">>, hostname |-> host]

\* String.prototype.endsWith
endsWith(s, suffix) ==
    /\ Len(s) >= Len(suffix)
    /\ Slice(s, Len(s) - Len(suffix) + 1, Len(s)) = suffix

\* a suffix test that does not anchor on the dot
DomainMatchesAnySuffix(hostname, domain) ==
    endsWith(hostname, toLowerCase(domain))

\* the test validateURL applies to each allowed domain
DomainMatches(hostname, domain) ==
    \/ hostname = toLowerCase(domain)
    \/ endsWith(hostname, <<".">> \o toLowerCase(domain))

\* validateURL(url, allowedDomains) for a string url; allowedDomains is <<>>
\* where it is omitted or empty
validateURL(url, allowedDomains) ==
    IF url = <<>> THEN FALSE
    ELSE LET urlObj == ParseURL(url)
         IN  IF ~urlObj.ok THEN FALSE
             ELSE IF urlObj.protocol \notin {SchemeHttp \o <<":">>, SchemeHttps \o <<":">>}
             THEN FALSE
             ELSE IF allowedDomains # <<>>
             THEN LET hostname == toLowerCase(urlObj.hostname)
                  IN  \E i \in 1..Len(allowedDomains) :
                         DomainMatches(hostname, allowedDomains[i])
             ELSE TRUE

\* validateURL(url, allowedDomains) for any JS value url and an optional list
\* of domains: false unless url is a non-empty string
validateURLOf(url, allowedDomains) ==
    IF url.t # "string" \/ url.v = <<>> THEN FALSE
    ELSE validateURL(url.v, IF allowedDomains.given THEN allowedDomains.list
                            ELSE <<>>)

\* generateSecureId(length): `window` tells whether window exists, and the
\* call's environment whether a cryptographic source exists (window.crypto in
\* a browser, globalThis.crypto elsewhere), the bytes getRandomValues would
\* deliver and the values of Math.floor(Math.random() * chars.length)
IdChars ==
    <<"A", "B", "C", "D", "E", "F", "G", "H", "I", "J", "K", "L", "M", "N",
    "O", "P", "Q", "R", "S", "T", "U", "V", "W", "X", "Y", "Z", "a", "b",
    "c", "d", "e", "f", "g", "h", "i", "j", "k", "l", "m", "n", "o", "p",
    "q", "r", "s", "t", "u", "v", "w", "x", "y", "z", "0", "1", "2", "3",
    "4", "5", "6", "7", "8", "9">>

generateSecureId(call, window) ==
    IF window /\ call.crypto
    THEN [source |-> "crypto",
          id |-> [i \in 1..call.length |-> IdChars[(call.bytes[i] % Len(IdChars)) + 1]]]
    ELSE [source |-> "Math.random",
          id |-> [i \in 1..call.length |-> IdChars[call.randoms[i] + 1]]]

\* sanitizeConfig(config) for an object: strings are sanitized,
\* numbers and booleans kept, string elements of arrays sanitized, nested
\* objects sanitized recursively, anything else dropped
RECURSIVE sanitizeConfig(_, _)
sanitizeConfig(cfg, hasDocument) ==
    LET keep == {k \in DOMAIN cfg :
                    cfg[k].t \in {"string", "number", "boolean", "array", "object"}}
    IN  [k \in keep |->
            CASE cfg[k].t = "string" ->
                    Str(sanitizeHTML(cfg[k].v, hasDocument))
              [] cfg[k].t \in {"number", "boolean"} -> cfg[k]
              [] cfg[k].t = "array" ->
                    Arr([i \in 1..Len(cfg[k].v) |->
                           IF cfg[k].v[i].t = "string"
                           THEN Str(sanitizeHTML(cfg[k].v[i].v, hasDocument))
                           ELSE cfg[k].v[i]])
              [] cfg[k].t = "object" ->
                    Obj(sanitizeConfig(cfg[k].v, hasDocument))]

\* sanitizeConfig(config) for any JS value: {} unless config is an object
sanitizeConfigOf(cfg, hasDocument) ==
    IF cfg.t # "object" THEN Obj(EmptyMap)
    ELSE Obj(sanitizeConfig(cfg.v, hasDocument))

-----------------------------------------------------------------------------
(* Configuration objects *)

\* { ...a, ...b }
Merge(a, b) ==
    [k \in (DOMAIN a) \cup (DOMAIN b) |-> IF k \in DOMAIN b THEN b[k] ELSE a[k]]

\* a property read in a boolean context
Truthy(cfg, f) ==
    /\ f \in DOMAIN cfg
    /\ CASE cfg[f].t = "string" -> cfg[f].v # <<>>
         [] cfg[f].t = "number" -> cfg[f].v # 0
         [] cfg[f].t = "boolean" -> cfg[f].v
         [] cfg[f].t = "array" -> TRUE
         [] OTHER -> TRUE

PrimaryColorDefault ==
    <<"#", "0", "0", "7", "b", "f", "f">>

SecondaryColorDefault ==
    <<"#", "6", "c", "7", "5", "7", "d">>

TextColorDefault ==
    <<"#", "2", "1", "2", "5", "2", "9">>

BackgroundColorDefault ==
    <<"#", "f", "f", "f", "f", "f", "f">>

PositionDefault ==
    <<"b", "o", "t", "t", "o", "m", "-", "r", "i", "g", "h", "t">>

FontFamilyDefault ==
    <<"-", "a", "p", "p", "l", "e", "-", "s", "y", "s", "t", "e", "m", ",",
    " ", "B", "l", "i", "n", "k", "M", "a", "c", "S", "y", "s", "t", "e", "m",
    "F", "o", "n", "t", ",", " ", "\"", "S", "e", "g", "o", "e", " ", "U", "I",
    "\"", ",", " ", "R", "o", "b", "o", "t", "o", ",", " ", "s", "a", "n", "s",
    "-", "s", "e", "r", "i", "f">>

\* getDefaultConfig()
getDefaultConfig ==
    [k \in {"primaryColor", "secondaryColor", "textColor", "backgroundColor",
            "position", "width", "height", "zIndex", "autoOpen", "greeting",
            "placeholder", "borderRadius", "fontFamily"} |->
        CASE k = "primaryColor" -> Str(PrimaryColorDefault)
          [] k = "secondaryColor" -> Str(SecondaryColorDefault)
          [] k = "textColor" -> Str(TextColorDefault)
          [] k = "backgroundColor" -> Str(BackgroundColorDefault)
          [] k = "position" -> Str(PositionDefault)
          [] k = "width" -> Num(350)
          [] k = "height" -> Num(500)
          [] k = "zIndex" -> Num(9999)
          [] k = "autoOpen" -> Bool(FALSE)
          [] k = "greeting" -> Str(GreetingDefault)
          [] k = "placeholder" -> Str(PlaceholderDefault)
          [] k = "borderRadius" -> Num(12)
          [] k = "fontFamily" -> Str(FontFamilyDefault)]

-----------------------------------------------------------------------------
(* SecurityUtils.RateLimiter *)

\* mutant of InWindow: nothing is ever evicted
InWindowKeepsAll(ts, nowv, windowMs) == ts

\* userTimestamps.filter(timestamp => now - timestamp < windowMs)
InWindow(ts, nowv, windowMs) == SelectSeq(ts, LAMBDA t : nowv - t < windowMs)

\* mutant of checkLimit: the comparison is > instead of >=
checkLimitOffByOne(m, key, limit, windowMs, nowv) ==
    LET userTimestamps == SelectSeq(Lookup(m, key), LAMBDA t : nowv - t < windowMs)
    IN  IF Len(userTimestamps) > limit
        THEN [ok |-> FALSE, timestamps |-> m]
        ELSE [ok |-> TRUE,
              timestamps |-> MapSet(m, key, Append(userTimestamps, nowv))]

\* mutant of checkLimit: the attempt is recorded before the comparison
checkLimitRecordsDenied(m, key, limit, windowMs, nowv) ==
    LET userTimestamps == SelectSeq(Lookup(m, key), LAMBDA t : nowv - t < windowMs)
    IN  [ok |-> ~(Len(userTimestamps) >= limit),
         timestamps |-> MapSet(m, key, Append(userTimestamps, nowv))]

\* mutant of checkLimit: one list for all keys
checkLimitSharedKey(m, key, limit, windowMs, nowv) ==
    LET userTimestamps ==
            SelectSeq(Lookup(m, "shared"), LAMBDA t : nowv - t < windowMs)
    IN  IF Len(userTimestamps) >= limit
        THEN [ok |-> FALSE, timestamps |-> m]
        ELSE [ok |-> TRUE,
              timestamps |-> [k \in (DOMAIN m) \cup {key, "shared"} |->
                                Append(userTimestamps, nowv)]]

\* mutant of checkLimit: the new timestamp is put in front of the list
checkLimitPrepends(m, key, limit, windowMs, nowv) ==
    LET userTimestamps == InWindow(Lookup(m, key), nowv, windowMs)
    IN  IF Len(userTimestamps) >= limit
        THEN [ok |-> FALSE, timestamps |-> m]
        ELSE [ok |-> TRUE,
              timestamps |-> MapSet(m, key, <<nowv>> \o userTimestamps)]

\* checkLimit(key, limit, windowMs) at Date.now() = nowv on the map m:
\* the value returned and the map afterwards.
checkLimit(m, key, limit, windowMs, nowv) ==
    LET userTimestamps == InWindow(Lookup(m, key), nowv, windowMs)
    IN  IF Len(userTimestamps) >= limit
        THEN [ok |-> FALSE, timestamps |-> m]
        ELSE [ok |-> TRUE,
              timestamps |-> MapSet(m, key, Append(userTimestamps, nowv))]

\* mutant of cleanup: a key left with no timestamps stays in the map
cleanupKeepsEmptyKeys(m, nowv) ==
    [k \in DOMAIN m |-> SelectSeq(m[k], LAMBDA t : nowv - t < oneHour)]

\* mutant of cleanup: timestamps are kept for one second only
cleanupAfterOneSecond(m, nowv) ==
    LET validTimestamps(k) == InWindow(m[k], nowv, 1000)
        kept == {k \in DOMAIN m : Len(validTimestamps(k)) # 0}
    IN  [k \in kept |-> validTimestamps(k)]

\* cleanup() at Date.now() = nowv on the map m: the map afterwards.
cleanup(m, nowv) ==
    LET validTimestamps(k) == InWindow(m[k], nowv, oneHour)
        kept == {k \in DOMAIN m : Len(validTimestamps(k)) # 0}
    IN  [k \in kept |-> validTimestamps(k)]

-----------------------------------------------------------------------------
(* History helpers *)

\* the one-key map of an instance that only ever saw `key`
SoloMap(l, key) ==
    IF solo[l][key] = <<>> THEN EmptyMap ELSE [k \in {key} |-> solo[l][key]]

NoCall == [op |-> "none", widget |-> "", limiter |-> "", key |-> "", limit |-> 0,
           windowMs |-> 0, ok |-> FALSE, soloOk |-> FALSE, removed |-> {},
           trimmed |-> {}]

\* one checkLimit call on limiter l made by `caller`: the updates of the
\* limiter's state and of the history of the isolated instance
LimiterCall(caller, l, key, limit, windowMs) ==
    LET r == checkLimit(timestamps[l], key, limit, windowMs, now)
        s == checkLimit(SoloMap(l, key), key, limit, windowMs, now)
    IN  /\ timestamps' = [timestamps EXCEPT ![l] = r.timestamps]
        /\ solo' = [solo EXCEPT ![l][key] = Lookup(s.timestamps, key)]
        /\ ret' = [NoCall EXCEPT !.op = "checkLimit", !.widget = caller,
                                 !.limiter = l, !.key = key, !.limit = limit,
                                 !.windowMs = windowMs, !.ok = r.ok, !.soloOk = s.ok]

\* the log entry of the call the step makes
LogCall(l, key, limit, windowMs) ==
    calls' = [calls EXCEPT ![l][key] =
                 Append(@, [at |-> now, ok |-> ret'.ok,
                            limit |-> limit, windowMs |-> windowMs])]

\* cleanup() of every limiter in ls; ret names the keys it deleted and the
\* keys whose list it shortened
CleanupAll(ls, name) ==
    /\ ret' = [NoCall EXCEPT
                 !.op = "cleanup", !.limiter = name,
                 !.removed = {lk \in ls \X AllKeys :
                                /\ lk[2] \in DOMAIN timestamps[lk[1]]
                                /\ lk[2] \notin DOMAIN cleanup(timestamps[lk[1]], now)},
                 !.trimmed = {lk \in ls \X AllKeys :
                                /\ lk[2] \in DOMAIN cleanup(timestamps[lk[1]], now)
                                /\ cleanup(timestamps[lk[1]], now)[lk[2]]
                                      # timestamps[lk[1]][lk[2]]}]
    /\ cleanupRan' = [l \in Limiters |-> cleanupRan[l] \/ l \in ls]
    /\ timestamps' = [l \in Limiters |->
                        IF l \in ls THEN cleanup(timestamps[l], now)
                        ELSE timestamps[l]]
    /\ solo' = [l \in Limiters |->
                  IF l \in ls
                  THEN [k \in AllKeys |-> InWindow(solo[l][k], now, oneHour)]
                  ELSE solo[l]]

-----------------------------------------------------------------------------
(* Actions of the limiter API *)

\* a direct call limiter.checkLimit(key, limit, windowMs)
CheckLimit(l, key, limit, windowMs) ==
    /\ LimiterCall("", l, key, limit, windowMs)
    /\ UNCHANGED <<now, hasWindow, calls, cleanupRan>>
    /\ UNCHANGED widgetVars

\* the same call, logged; the caller passes the same limit and windowMs for
\* a key on every call
LoggedCheckLimit(l, key, limit, windowMs) ==
    /\ Len(calls[l][key]) < MaxCalls
    /\ IF calls[l][key] = <<>> THEN TRUE
       ELSE /\ calls[l][key][1].limit = limit
            /\ calls[l][key][1].windowMs = windowMs
    /\ LimiterCall("", l, key, limit, windowMs)
    /\ LogCall(l, key, limit, windowMs)
    /\ UNCHANGED <<now, hasWindow, cleanupRan>>
    /\ UNCHANGED widgetVars

\* a logged call of a caller that passes whatever limit and windowMs it likes
MaxVaryingCalls == 3

VaryingCheckLimit(l, key, limit, windowMs) ==
    /\ Len(calls[l][key]) < MaxVaryingCalls
    /\ LimiterCall("", l, key, limit, windowMs)
    /\ LogCall(l, key, limit, windowMs)
    /\ UNCHANGED <<now, hasWindow, cleanupRan>>
    /\ UNCHANGED widgetVars

\* a direct call limiter.cleanup()
Cleanup(l) ==
    /\ CleanupAll({l}, l)
    /\ UNCHANGED <<now, hasWindow, calls>>
    /\ UNCHANGED widgetVars

\* mutant of CleanupTimer: the callback forgets globalLimiter
CleanupTimerSkipsGlobal ==
    /\ hasWindow
    /\ CleanupAll({"messageLimiter", "uploadLimiter"}, "all")
    /\ UNCHANGED <<now, hasWindow, calls>>
    /\ UNCHANGED widgetVars

\* the setInterval callback registered when a window exists
CleanupTimer ==
    /\ hasWindow
    /\ CleanupAll(Limiters, "all")
    /\ UNCHANGED <<now, hasWindow, calls>>
    /\ UNCHANGED widgetVars

\* time passes: Date.now() is t from now on
Tick(t) ==
    /\ t > now
    /\ now' = t
    /\ ret' = [NoCall EXCEPT !.op = "tick"]
    /\ UNCHANGED <<hasWindow, timestamps, calls, solo, cleanupRan>>
    /\ UNCHANGED widgetVars

-----------------------------------------------------------------------------
(* Widget constants *)

Widgets == {"w1", "w2"}
Events == {"open", "close", "message"}

\* sendMessage: validateLength(text, 1000), checkLimit(userKey, 10, 60000),
\* setTimeout(..., 1000)
MaxMessageLength == 1000
MessageLimit == 10
MessageWindowMs == 60000
BotReplyDelayMs == 1000

\* handleFileUpload: 10 * 1024 * 1024, allowedTypes, checkLimit(userKey, 3, 60000)
maxFileSize == 10485760
allowedTypes == {"image/jpeg", "image/png", "application/pdf", "text/plain"}
UploadLimit == 3
UploadWindowMs == 60000

\* sendQuickReply: validateLength(text, 500); sendToAPI: checkLimit(userKey, 10, 60000)
MaxQuickReplyLength == 500
ApiLimit == 10
ApiWindowMs == 60000

\* addBotResponse: the canned responses
responses == <<Response1, Response2, Response3, Response4>>

\* mutant of UserKey: every widget instance uses its own key
UserKeyPerWidget(w) == w

\* const userKey = 'user' of sendMessage, handleFileUpload and sendToAPI
UserKey(w) == "user"

NoContainer == [present |-> FALSE, fileButton |-> FALSE, quickReplies |-> "none"]
NoListeners == [e \in Events |-> <<>>]

-----------------------------------------------------------------------------
(* Widget helpers *)

\* a Message (without its random id); `limited` records whether the handler
\* that created it had obtained a true checkLimit before, `via` names that
\* handler
Msg(text, sender, type, limited, via) ==
    [text |-> text, sender |-> sender, timestamp |-> now, type |-> type,
     limited |-> limited, via |-> via]

\* the message showError(message) adds
ErrorMsg(message) ==
    Msg(sanitizeHTML(message, hasWindow), "bot", "undefined", FALSE, "showError")

\* the message addBotResponse adds when Math.random picks responses[idx]
BotResponseMsg(idx) ==
    Msg(sanitizeHTML(responses[idx], hasWindow), "bot", "undefined", FALSE,
        "addBotResponse")

\* this.advancedConfig.apiUrl is set and validateURL accepts it
ApiUrlValid(cfg) ==
    /\ Truthy(cfg, "apiUrl")
    /\ cfg["apiUrl"].t = "string"
    /\ validateURL(cfg["apiUrl"].v, <<>>)

\* trackEvent(event, data): the analytics POST it issues, if any
TrackEvent(w, cfg) ==
    IF Truthy(cfg, "trackEvents") /\ Truthy(cfg, "apiUrl") /\ ApiUrlValid(cfg)
    THEN {[widget |-> w, kind |-> "analytics", limited |-> FALSE, validated |-> TRUE]}
    ELSE {}

\* a callback of the given kind is registered for the event: "analytics" is
\* the listener of initializeAnalytics, "integration" the documented listener
\* that posts a user message to the page's own endpoint and adds the answer
\* as a bot message
Listens(w, event, listener) ==
    \E i \in 1..Len(eventListeners[w][event]) :
        eventListeners[w][event][i] = listener

\* emit(event): the analytics listener of initializeAnalytics calls trackEvent
Emit(w, event) ==
    IF \E i \in 1..Len(eventListeners[w][event]) :
           eventListeners[w][event][i] = "analytics"
    THEN TrackEvent(w, config[w])
    ELSE {}

\* init(): the container and the greeting, when window and document exist
InitMessages(cfg) ==
    IF hasWindow /\ Truthy(cfg, "greeting") /\ cfg["greeting"].t = "string"
    THEN <<Msg(sanitizeHTML(cfg["greeting"].v, hasWindow), "bot", "undefined",
               FALSE, "init")>>
    ELSE <<>>

\* new AdvancedChatbotCore(cfg): the fields of the new instance and the
\* analytics POST of initializeAnalytics
Constructed(w, cfg) ==
    LET c == Merge(getDefaultConfig, sanitizeConfig(cfg, hasWindow))
        quick == /\ "quickReplies" \in DOMAIN c
                 /\ c["quickReplies"].t = "array"
                 /\ Len(c["quickReplies"].v) > 0
    IN  [config |-> c,
         container |-> IF hasWindow
                       THEN [present |-> TRUE,
                             fileButton |-> Truthy(c, "enableFileUpload"),
                             quickReplies |-> IF quick THEN "shown" ELSE "none"]
                       ELSE NoContainer,
         messages |-> InitMessages(c),
         isOnline |-> IF hasWindow THEN online ELSE TRUE,
         eventListeners |-> IF Truthy(c, "trackEvents")
                            THEN [e \in Events |-> <<"analytics">>]
                            ELSE NoListeners,
         outbound |-> IF Truthy(c, "trackEvents") THEN TrackEvent(w, c) ELSE {}]

\* a step of widget w that makes no checkLimit call
WidgetStep(w, op) ==
    /\ ret' = [NoCall EXCEPT !.op = op, !.widget = w]
    /\ UNCHANGED <<timestamps, solo, calls>>

\* a checkLimit call made by a handler of widget w, logged
WidgetCheck(w, l, limit, windowMs) ==
    /\ LimiterCall(w, l, UserKey(w), limit, windowMs)
    /\ LogCall(l, UserKey(w), limit, windowMs)

\* the messages widget w holds and the callbacks it has pending
Held(w) == Len(messages[w]) + Len(timers[w]) + Len(inflight[w])

RemoveAt(s, i) == SubSeq(s, 1, i - 1) \o SubSeq(s, i + 1, Len(s))

-----------------------------------------------------------------------------
(* Widget actions *)

\* new AdvancedChatbotCore(cfg)
Construct(w, cfg) ==
    /\ ~constructed[w]
    /\ LET c == Constructed(w, cfg)
       IN  /\ constructed' = [constructed EXCEPT ![w] = TRUE]
           /\ config' = [config EXCEPT ![w] = c.config]
           /\ container' = [container EXCEPT ![w] = c.container]
           /\ messages' = [messages EXCEPT ![w] = c.messages]
           /\ isOnline' = [isOnline EXCEPT ![w] = c.isOnline]
           /\ eventListeners' = [eventListeners EXCEPT ![w] = c.eventListeners]
           /\ outbound' = outbound \cup c.outbound
    /\ WidgetStep(w, "constructor")
    /\ UNCHANGED <<now, hasWindow, cleanupRan, online, isOpen, timers, inflight>>

\* sendMessage(): the send button or Enter, with `raw` in the input field
SendMessage(w, raw) ==
    LET text == Trim(raw)
        valid == text # <<>> /\ validateLength(text, MaxMessageLength)
    IN  /\ constructed[w]
        /\ container[w].present
        /\ Held(w) < MaxMessages
        /\ Len(calls["messageLimiter"][UserKey(w)]) < MessageLimit + MaxExtraCalls
        /\ IF valid
           THEN WidgetCheck(w, "messageLimiter", MessageLimit, MessageWindowMs)
           ELSE WidgetStep(w, "sendMessage")
        /\ LET admitted == valid /\ ret'.ok
               message == Msg(sanitizeHTML(text, hasWindow), "user", "undefined",
                              admitted, "sendMessage")
           IN  /\ messages' = [messages EXCEPT ![w] =
                     IF text = <<>> THEN @
                     ELSE IF ~valid THEN Append(@, ErrorMsg(MsgTooLong))
                     ELSE IF ~admitted THEN Append(@, ErrorMsg(MsgSlowDown))
                     ELSE Append(@, message)]
               /\ outbound' = IF admitted THEN outbound \cup Emit(w, "message")
                              ELSE outbound
               /\ timers' = [timers EXCEPT ![w] =
                     IF admitted
                     THEN Append(@, [due |-> now + BotReplyDelayMs, text |-> text])
                     ELSE @]
               /\ inflight' = [inflight EXCEPT ![w] =
                     IF admitted /\ Listens(w, "message", "integration")
                     THEN Append(@, [kind |-> "integration", text |-> message.text,
                                     limited |-> FALSE])
                     ELSE @]
        /\ UNCHANGED <<now, hasWindow, cleanupRan, online, constructed, config,
                       container, isOpen, isOnline, eventListeners>>

\* the setTimeout callback of sendMessage: addBotResponse(text)
BotReplyTimer(w, idx) ==
    /\ timers[w] # <<>>
    /\ now >= timers[w][1].due
    /\ timers' = [timers EXCEPT ![w] = Tail(@)]
    /\ messages' = [messages EXCEPT ![w] = Append(@, BotResponseMsg(idx))]
    /\ WidgetStep(w, "addBotResponse")
    /\ UNCHANGED <<now, hasWindow, cleanupRan, online, constructed, config,
                   container, isOpen, isOnline, eventListeners, inflight, outbound>>

\* handleFileUpload(event) up to its first await: the change event of the
\* file input with `file` selected
HandleFileUpload(w, file) ==
    LET passes == /\ validateFileSize(file, maxFileSize)
                  /\ validateFileType(file, allowedTypes)
        sanitizedName == sanitizeFileName(file.name)
    IN  /\ constructed[w]
        /\ container[w].present
        /\ container[w].fileButton
        /\ Held(w) < MaxMessages
        /\ Len(calls["uploadLimiter"][UserKey(w)]) < UploadLimit + MaxExtraCalls
        /\ IF passes
           THEN WidgetCheck(w, "uploadLimiter", UploadLimit, UploadWindowMs)
           ELSE WidgetStep(w, "handleFileUpload")
        /\ LET admitted == passes /\ ret'.ok
               issued == admitted /\ ApiUrlValid(config[w])
           IN  /\ messages' = [messages EXCEPT ![w] =
                     IF ~validateFileSize(file, maxFileSize)
                     THEN Append(@, ErrorMsg(MsgFileTooLarge))
                     ELSE IF ~passes THEN Append(@, ErrorMsg(MsgFileType))
                     ELSE IF ~admitted THEN Append(@, ErrorMsg(MsgUploadSlowDown))
                     ELSE IF ~issued THEN Append(@, ErrorMsg(MsgUploadFailed))
                     ELSE @]
               /\ inflight' = [inflight EXCEPT ![w] =
                     IF issued
                     THEN Append(@, [kind |-> "upload", text |-> sanitizedName,
                                     limited |-> admitted])
                     ELSE @]
               /\ outbound' =
                     IF issued
                     THEN outbound \cup {[widget |-> w, kind |-> "upload",
                                          limited |-> admitted, validated |-> TRUE]}
                     ELSE outbound
        /\ UNCHANGED <<now, hasWindow, cleanupRan, online, constructed, config,
                       container, isOpen, isOnline, eventListeners, timers>>

\* handleFileUpload after the await: the upload POST has answered (ok) or
\* failed (rejected, or a status that is not ok)
UploadDone(w, i, ok) ==
    /\ i \in 1..Len(inflight[w])
    /\ inflight[w][i].kind = "upload"
    /\ inflight' = [inflight EXCEPT ![w] = RemoveAt(@, i)]
    /\ messages' = [messages EXCEPT ![w] =
          IF ok
          THEN Append(@, Msg(UploadedPrefix \o inflight[w][i].text, "user", "file",
                             inflight[w][i].limited, "handleFileUpload"))
          ELSE Append(@, ErrorMsg(MsgUploadFailed))]
    /\ WidgetStep(w, "handleFileUpload")
    /\ UNCHANGED <<now, hasWindow, cleanupRan, online, constructed, config,
                   container, isOpen, isOnline, eventListeners, timers, outbound>>

\* sendQuickReply(text) with sendToAPI(sanitizedText) up to its first await:
\* a click on the r-th quick reply button
SendQuickReply(w, r, idx) ==
    /\ constructed[w]
    /\ container[w].present
    /\ container[w].quickReplies = "shown"
    /\ r \in 1..Len(config[w]["quickReplies"].v)
    /\ Held(w) < MaxMessages
    /\ Len(calls["messageLimiter"][UserKey(w)]) < ApiLimit + MaxExtraCalls
    /\ LET text == config[w]["quickReplies"].v[r].v
           valid == validateLength(text, MaxQuickReplyLength)
           sanitizedText == sanitizeHTML(text, hasWindow)
           hasApi == Truthy(config[w], "apiUrl")
           urlOk == ApiUrlValid(config[w])
           checks == valid /\ hasApi /\ urlOk
       IN  /\ IF checks
              THEN WidgetCheck(w, "messageLimiter", ApiLimit, ApiWindowMs)
              ELSE WidgetStep(w, "sendQuickReply")
           /\ LET issued == checks /\ ret'.ok
                  userMsg == Msg(sanitizedText, "user", "undefined", FALSE,
                                 "sendQuickReply")
              IN  /\ messages' = [messages EXCEPT ![w] =
                        IF ~valid THEN Append(@, ErrorMsg(MsgQuickTooLong))
                        ELSE IF ~hasApi
                        THEN Append(Append(@, userMsg), BotResponseMsg(idx))
                        ELSE IF ~urlOk
                        THEN Append(Append(@, userMsg), ErrorMsg(MsgBadApi))
                        ELSE IF ~issued
                        THEN Append(Append(@, userMsg), ErrorMsg(MsgTooMany))
                        ELSE Append(@, userMsg)]
                  /\ container' = [container EXCEPT ![w].quickReplies =
                        IF valid THEN "hidden" ELSE @]
                  /\ inflight' = [inflight EXCEPT ![w] =
                        IF issued
                        THEN Append(@, [kind |-> "chat",
                                        text |-> sanitizeHTML(sanitizedText, hasWindow),
                                        limited |-> TRUE])
                        ELSE @]
                  /\ outbound' =
                        IF issued
                        THEN outbound \cup {[widget |-> w, kind |-> "chat",
                                             limited |-> TRUE, validated |-> urlOk]}
                        ELSE outbound
    /\ UNCHANGED <<now, hasWindow, cleanupRan, online, constructed, config,
                   isOpen, isOnline, eventListeners, timers>>

\* sendToAPI after the await: the chat POST has answered with `response`
\* (ok) or failed
ChatDone(w, i, ok, response) ==
    /\ i \in 1..Len(inflight[w])
    /\ inflight[w][i].kind = "chat"
    /\ inflight' = [inflight EXCEPT ![w] = RemoveAt(@, i)]
    /\ messages' = [messages EXCEPT ![w] =
          IF ok
          THEN Append(@, Msg(sanitizeHTML(IF response # <<>> THEN response
                                          ELSE MsgReceivedDefault, hasWindow),
                             "bot", "undefined", FALSE, "sendToAPI"))
          ELSE IF ~isOnline[w]
          THEN Append(@, Msg(sanitizeHTML(IF Truthy(config[w], "offlineMessage")
                                          THEN config[w]["offlineMessage"].v
                                          ELSE MsgOfflineDefault, hasWindow),
                             "bot", "undefined", FALSE, "sendToAPI"))
          ELSE Append(@, ErrorMsg(MsgWentWrong))]
    /\ WidgetStep(w, "sendToAPI")
    /\ UNCHANGED <<now, hasWindow, cleanupRan, online, constructed, config,
                   container, isOpen, isOnline, eventListeners, timers, outbound>>

\* on(event, callback), called by the page on a constructed widget
MaxListeners == 1
On(w, event, listener) ==
    /\ constructed[w]
    /\ Len(eventListeners[w][event]) < MaxListeners
    /\ eventListeners' = [eventListeners EXCEPT ![w][event] = Append(@, listener)]
    /\ WidgetStep(w, "on")
    /\ UNCHANGED <<now, hasWindow, cleanupRan, online, constructed, config,
                   container, isOpen, isOnline, messages, timers, inflight,
                   outbound>>

\* the integration listener's request has answered with `response` (ok) or
\* failed: addMessage of a bot message, or showError
IntegrationDone(w, i, ok, response) ==
    /\ i \in 1..Len(inflight[w])
    /\ inflight[w][i].kind = "integration"
    /\ inflight' = [inflight EXCEPT ![w] = RemoveAt(@, i)]
    /\ messages' = [messages EXCEPT ![w] =
          IF ok THEN Append(@, Msg(response, "bot", "undefined", FALSE, "integration"))
          ELSE Append(@, ErrorMsg(MsgWentWrong))]
    /\ WidgetStep(w, "integration")
    /\ UNCHANGED <<now, hasWindow, cleanupRan, online, constructed, config,
                   container, isOpen, isOnline, eventListeners, timers, outbound>>

\* open() and close()
Open(w) ==
    /\ constructed[w]
    /\ container[w].present
    /\ isOpen' = [isOpen EXCEPT ![w] = TRUE]
    /\ outbound' = outbound \cup Emit(w, "open")
    /\ WidgetStep(w, "open")
    /\ UNCHANGED <<now, hasWindow, cleanupRan, online, constructed, config,
                   container, isOnline, messages, eventListeners, timers, inflight>>

Close(w) ==
    /\ constructed[w]
    /\ container[w].present
    /\ isOpen' = [isOpen EXCEPT ![w] = FALSE]
    /\ outbound' = outbound \cup Emit(w, "close")
    /\ WidgetStep(w, "close")
    /\ UNCHANGED <<now, hasWindow, cleanupRan, online, constructed, config,
                   container, isOnline, messages, eventListeners, timers, inflight>>

\* the window's online / offline event (listeners of checkOnlineStatus)
NetworkEvent(b) ==
    /\ hasWindow
    /\ online # b
    /\ online' = b
    /\ isOnline' = [w \in Widgets |-> IF constructed[w] THEN b ELSE isOnline[w]]
    /\ ret' = [NoCall EXCEPT !.op = "network"]
    /\ UNCHANGED <<now, hasWindow, timestamps, solo, calls, cleanupRan, constructed,
                   config, container, isOpen, messages, eventListeners, timers,
                   inflight, outbound>>

\* destroy()
Destroy(w) ==
    /\ constructed[w]
    /\ IF hasWindow
       THEN /\ eventListeners' = [eventListeners EXCEPT ![w] = NoListeners]
            /\ container' = [container EXCEPT ![w] = NoContainer]
            /\ isOpen' = [isOpen EXCEPT ![w] = FALSE]
            /\ messages' = [messages EXCEPT ![w] = <<>>]
       ELSE UNCHANGED <<eventListeners, container, isOpen, messages>>
    /\ WidgetStep(w, "destroy")
    /\ UNCHANGED <<now, hasWindow, cleanupRan, online, constructed, config,
                   isOnline, timers, inflight, outbound>>

\* mutant of UpdateConfig: the new configuration is merged and nothing else
UpdateConfigMergesOnly(w, newConfig) ==
    /\ constructed[w]
    /\ config' = [config EXCEPT ![w] = Merge(@, newConfig)]
    /\ WidgetStep(w, "updateConfig")
    /\ UNCHANGED <<now, hasWindow, cleanupRan, online, constructed, isOnline,
                   timers, inflight, outbound, eventListeners, container,
                   isOpen, messages>>

\* updateConfig(newConfig): merge, destroy(), init()
UpdateConfig(w, newConfig) ==
    /\ constructed[w]
    /\ config' = [config EXCEPT ![w] = Merge(@, newConfig)]
    /\ IF hasWindow
       THEN /\ eventListeners' = [eventListeners EXCEPT ![w] = NoListeners]
            /\ container' = [container EXCEPT ![w] =
                                [present |-> TRUE, fileButton |-> FALSE,
                                 quickReplies |-> "none"]]
            /\ isOpen' = [isOpen EXCEPT ![w] = FALSE]
            /\ messages' = [messages EXCEPT ![w] =
                               InitMessages(Merge(config[w], newConfig))]
       ELSE UNCHANGED <<eventListeners, container, isOpen, messages>>
    /\ WidgetStep(w, "updateConfig")
    /\ UNCHANGED <<now, hasWindow, cleanupRan, online, constructed, isOnline,
                   timers, inflight, outbound>>

-----------------------------------------------------------------------------
(* Specifications *)

vars == <<limiterVars, widgetVars>>

\* no widget has been constructed
InitWidgets ==
    /\ online \in BOOLEAN
    /\ constructed = [w \in Widgets |-> FALSE]
    /\ config = [w \in Widgets |-> EmptyMap]
    /\ container = [w \in Widgets |-> NoContainer]
    /\ isOpen = [w \in Widgets |-> FALSE]
    /\ isOnline = [w \in Widgets |-> TRUE]
    /\ messages = [w \in Widgets |-> <<>>]
    /\ eventListeners = [w \in Widgets |-> NoListeners]
    /\ timers = [w \in Widgets |-> <<>>]
    /\ inflight = [w \in Widgets |-> <<>>]
    /\ outbound = {}

\* the page has loaded the library and uses the limiter API only
NoWidgets ==
    /\ InitWidgets
    /\ online = TRUE

InitLimiters ==
    /\ now = 0
    /\ timestamps = [l \in Limiters |-> EmptyMap]
    /\ ret = NoCall
    /\ calls = [l \in Limiters |-> [k \in AllKeys |-> <<>>]]
    /\ solo = [l \in Limiters |-> [k \in AllKeys |-> <<>>]]
    /\ cleanupRan = [l \in Limiters |-> FALSE]

Init ==
    /\ InitLimiters
    /\ hasWindow \in BOOLEAN
    /\ NoWidgets

\* Spec: arbitrary direct use of one RateLimiter instance
Next ==
    \/ \E key \in Keys, limit \in Limits, windowMs \in Windows :
          CheckLimit("globalLimiter", key, limit, windowMs)
    \/ Cleanup("globalLimiter")
    \/ \E t \in Times : Tick(t)

Spec == Init /\ [][Next]_vars

\* FixedSpec: a caller that passes one limit and one windowMs per key, with
\* every call logged
FixedLimits == {1, 2, 3}
FixedWindows == {1000, oneHour + 1}

FixedNext ==
    \/ \E limit \in FixedLimits, windowMs \in FixedWindows :
          LoggedCheckLimit("globalLimiter", "a", limit, windowMs)
    \/ Cleanup("globalLimiter")
    \/ \E t \in Times : Tick(t)

FixedSpec == Init /\ [][FixedNext]_vars

\* HourSpec: a caller whose windows are at most one hour long, with every
\* call logged
HourLimits == {1, 2}
HourWindows == {1000, oneHour}

HourNext ==
    \/ \E limit \in HourLimits, windowMs \in HourWindows :
          LoggedCheckLimit("globalLimiter", "a", limit, windowMs)
    \/ Cleanup("globalLimiter")
    \/ \E t \in Times : Tick(t)

HourSpec == Init /\ [][HourNext]_vars

\* StoreSpec: a caller that changes the limit from call to call on one key
\* and passes only limits of zero or less on another, with every call logged
StoreLimits == {0, 1, 2}
DenyingLimits == {-1, 0}
StoreTimes == {0, 3600999}

StoreNext ==
    \/ \E limit \in StoreLimits :
          VaryingCheckLimit("globalLimiter", "a", limit, 1000)
    \/ \E limit \in DenyingLimits :
          VaryingCheckLimit("globalLimiter", "b", limit, DefaultWindowMs)
    \/ Cleanup("globalLimiter")
    \/ \E t \in StoreTimes : Tick(t)

StoreSpec == Init /\ [][StoreNext]_vars

\* FairSpec: the exported instances in a long-lived process; cleanup runs
\* only from the interval timer, which fires again and again when it exists
FairTimes == {0, 3600000, 3600999}

FairNext ==
    \/ \E l \in Limiters, limit \in {1, 2} :
          CheckLimit(l, "a", limit, DefaultWindowMs)
    \/ CleanupTimer
    \/ \E t \in FairTimes : Tick(t)

FairSpec == Init /\ [][FairNext]_vars /\ WF_vars(CleanupTimer)

-----------------------------------------------------------------------------
(* Inputs of the widget specifications *)

FilePng == [name |-> NamePng, size |-> 1024, type |-> "image/png"]
FileHuge == [name |-> NameTraversal, size |-> maxFileSize + 1, type |-> "image/png"]
FileExe == [name |-> NameTraversal, size |-> 1024, type |-> "application/x-msdownload"]

\* { quickReplies: ['<b>"T&C"</b>'], enableFileUpload: true }
ConfigLocal ==
    [k \in {"quickReplies", "enableFileUpload"} |->
        IF k = "quickReplies" THEN Arr(<<Str(TextMarkup)>>) ELSE Bool(TRUE)]

\* { apiUrl: 'https://api.example.com/chat', quickReplies: ['hi'],
\*   enableFileUpload: true, trackEvents: true, messageRateLimit: 2,
\*   uploadRateLimit: 1 }
ConfigApi ==
    [k \in {"apiUrl", "quickReplies", "enableFileUpload", "trackEvents",
            "messageRateLimit", "uploadRateLimit"} |->
        CASE k = "apiUrl" -> Str(UrlApi)
          [] k = "quickReplies" -> Arr(<<Str(TextHi)>>)
          [] k = "enableFileUpload" -> Bool(TRUE)
          [] k = "trackEvents" -> Bool(TRUE)
          [] k = "messageRateLimit" -> Num(2)
          [] k = "uploadRateLimit" -> Num(1)]

\* { apiUrl: 'javascript:alert(1)', quickReplies: ['hi'], trackEvents: true }
ConfigScriptUrl ==
    [k \in {"apiUrl", "quickReplies", "trackEvents"} |->
        CASE k = "apiUrl" -> Str(UrlScript)
          [] k = "quickReplies" -> Arr(<<Str(TextHi)>>)
          [] k = "trackEvents" -> Bool(TRUE)]

\* { apiUrl: 'https://api.example.com/chat', quickReplies: ['hi'],
\*   enableFileUpload: true }
ConfigShared ==
    [k \in {"apiUrl", "quickReplies", "enableFileUpload"} |->
        CASE k = "apiUrl" -> Str(UrlApi)
          [] k = "quickReplies" -> Arr(<<Str(TextHi)>>)
          [] k = "enableFileUpload" -> Bool(TRUE)]

\* { greeting: '<b>"T&C"</b>' }
ConfigGreeting ==
    [k \in {"greeting"} |-> Str(TextMarkup)]

Configs == {ConfigLocal, ConfigApi, ConfigScriptUrl, ConfigGreeting}
Texts == {TextMarkup, TextBlank}
Files == {FilePng, FileHuge, FileExe}
NewConfigs == {[k \in {"greeting"} |-> Str(TextMarkup)]}
WidgetTimes == {0, 1000}

\* WidgetSpec: one page with one widget, used through its controls and its
\* public API
WidgetInit ==
    /\ InitLimiters
    /\ hasWindow \in BOOLEAN
    /\ InitWidgets

WidgetNext ==
    \/ \E cfg \in Configs : Construct("w1", cfg)
    \/ \E raw \in Texts : SendMessage("w1", raw)
    \/ BotReplyTimer("w1", 1)
    \/ \E file \in Files : HandleFileUpload("w1", file)
    \/ \E ok \in BOOLEAN : UploadDone("w1", 1, ok)
    \/ SendQuickReply("w1", 1, 2)
    \/ \E ok \in BOOLEAN, response \in {<<>>, TextMarkup} : ChatDone("w1", 1, ok, response)
    \/ Open("w1")
    \/ Close("w1")
    \/ \E b \in BOOLEAN : NetworkEvent(b)
    \/ Destroy("w1")
    \/ \E newConfig \in NewConfigs : UpdateConfig("w1", newConfig)
    \/ CleanupTimer
    \/ \E t \in WidgetTimes : Tick(t)

WidgetSpec == WidgetInit /\ [][WidgetNext]_vars

\* SharedSpec: one page with two widgets, both just constructed with
\* ConfigShared at time 0; earlier widgets of the page, since destroyed, have
\* had EarlierSends typed messages admitted at time 0.  The upload endpoint
\* does not answer within the behaviours considered.
SharedTimes == {0, 60000}
EarlierSends == 8
EarlierLog ==
    [i \in 1..EarlierSends |->
        [at |-> 0, ok |-> TRUE, limit |-> MessageLimit, windowMs |-> MessageWindowMs]]

SharedInit ==
    /\ now = 0
    /\ timestamps = [l \in Limiters |->
                        IF l = "messageLimiter"
                        THEN [k \in {"user"} |-> [i \in 1..EarlierSends |-> 0]]
                        ELSE EmptyMap]
    /\ ret = NoCall
    /\ calls = [l \in Limiters |-> [k \in AllKeys |->
                   IF l = "messageLimiter" /\ k = "user" THEN EarlierLog ELSE <<>>]]
    /\ solo = [l \in Limiters |-> [k \in AllKeys |->
                  IF l = "messageLimiter" /\ k = "user"
                  THEN [i \in 1..EarlierSends |-> 0] ELSE <<>>]]
    /\ cleanupRan = [l \in Limiters |-> FALSE]
    /\ hasWindow = TRUE
    /\ online = TRUE
    /\ constructed = [w \in Widgets |-> TRUE]
    /\ config = [w \in Widgets |-> Constructed(w, ConfigShared).config]
    /\ container = [w \in Widgets |-> Constructed(w, ConfigShared).container]
    /\ isOpen = [w \in Widgets |-> FALSE]
    /\ isOnline = [w \in Widgets |-> TRUE]
    /\ messages = [w \in Widgets |-> Constructed(w, ConfigShared).messages]
    /\ eventListeners = [w \in Widgets |-> NoListeners]
    /\ timers = [w \in Widgets |-> <<>>]
    /\ inflight = [w \in Widgets |-> <<>>]
    /\ outbound = {}

SharedNext ==
    \/ \E w \in Widgets : SendMessage(w, TextHi)
    \/ \E w \in Widgets : BotReplyTimer(w, 1)
    \/ \E w \in Widgets : HandleFileUpload(w, FilePng)
    \/ \E w \in Widgets : SendQuickReply(w, 1, 1)
    \/ \E w \in Widgets : ChatDone(w, 1, TRUE, TextHi)
    \/ \E w \in Widgets : UpdateConfig(w, EmptyMap)
    \/ \E t \in SharedTimes : Tick(t)

SharedSpec == SharedInit /\ [][SharedNext]_vars

-----------------------------------------------------------------------------
(* PureSpec: the static functions of SecurityUtils called directly, in a   *)
(* browser or without a document, on inputs drawn from bounded sets        *)

\* the strings over an alphabet of length at most n
StringsOver(alphabet, n) == UNION {[1..k -> alphabet] : k \in 0..n}

\* length of the texts passed to the sanitizers
MaxTextLen == 3

HtmlChars == {"a", "&", "<", ">", "\"", "'", Nbsp}
HtmlTexts == StringsOver(HtmlChars, MaxTextLen)
HtmlInputs == {Str(s) : s \in HtmlTexts}
NonStrings == {Num(0), Num(7), Null, Undefined, Fn}

\* a call of a static function: ret holds the arguments and the value returned.
\* The functions keep no state between calls, so a behaviour makes one call.
PureCall(op, input, extra, output) ==
    /\ ret.op = "none"
    /\ ret' = [op |-> op, input |-> input, extra |-> extra, output |-> output]
    /\ UNCHANGED <<now, hasWindow, timestamps, calls, solo, cleanupRan>>
    /\ UNCHANGED widgetVars

\* SecurityUtils.sanitizeHTML(input)
SanitizeHTML(input) ==
    PureCall("sanitizeHTML", input, <<>>, sanitizeHTMLOf(input, hasWindow))

\* texts whose substituted form reaches the cut of sanitizeAttribute
PadLengths == {MaxAttributeLength - k : k \in 0..MaxTextLen}
LongTexts ==
    {[i \in 1..n |-> "a"] \o s : n \in PadLengths, s \in StringsOver(HtmlChars, 1)}
LongInputs == {Str(s) : s \in LongTexts}

\* SecurityUtils.sanitizeAttribute(input)
SanitizeAttribute(input) ==
    PureCall("sanitizeAttribute", input, <<>>, sanitizeAttributeOf(input))

\* SecurityUtils.sanitizeFileName(fileName)
MaxNameLen == 4
NameChars == {"a", ".", "/", "\\", " "}
Names == StringsOver(NameChars, MaxNameLen)
LongNames ==
    {[i \in 1..n |-> "a"] \o s :
        n \in {MaxFileNameLength - 1, MaxFileNameLength},
        s \in StringsOver(NameChars, 2)}
NameInputs == {Str(s) : s \in Names \cup LongNames}

SanitizeFileName(fileName) ==
    PureCall("sanitizeFileName", fileName, <<>>, sanitizeFileNameOf(fileName))

\* SecurityUtils.validateURL(url, allowedDomains): the URLs are a prefix
\* (scheme, slashes, user info), a host and a tail (port, path, query)
PrefixHttps ==
    <<"h", "t", "t", "p", "s", ":", "/", "/">>

PrefixHttp ==
    <<"h", "t", "t", "p", ":", "/", "/">>

PrefixUpper ==
    <<"H", "T", "T", "P", "S", ":", "/", "/">>

PrefixFtp ==
    <<"f", "t", "p", ":", "/", "/">>

PrefixScript ==
    <<"j", "a", "v", "a", "s", "c", "r", "i", "p", "t", ":">>

PrefixUser ==
    <<"h", "t", "t", "p", "s", ":", "/", "/", "u", "s", "e", "r", "@">>

PrefixSpoof ==
    <<"h", "t", "t", "p", "s", ":", "/", "/", "e", "x", "a", "m", "p", "l",
    "e", ".", "c", "o", "m", "@">>

HostExample ==
    <<"e", "x", "a", "m", "p", "l", "e", ".", "c", "o", "m">>

HostSub ==
    <<"s", "u", "b", ".", "e", "x", "a", "m", "p", "l", "e", ".", "c", "o",
    "m">>

HostEvilDash ==
    <<"e", "v", "i", "l", "-", "e", "x", "a", "m", "p", "l", "e", ".", "c",
    "o", "m">>

HostUpper ==
    <<"E", "X", "A", "M", "P", "L", "E", ".", "c", "o", "m">>

HostEvil ==
    <<"e", "v", "i", "l", ".", "c", "o", "m">>

HostBlank ==
    <<"e", "x", "a", " ", "m", "p", "l", "e", ".", "c", "o", "m">>

HostEvilSuffix ==
    <<"e", "x", "a", "m", "p", "l", "e", ".", "c", "o", "m", ".", "e", "v",
    "i", "l", ".", "c", "o", "m">>

TailPath ==
    <<"/", "c", "h", "a", "t">>

TailPort ==
    <<":", "8", "0", "8", "0", "/">>

TailBadPort ==
    <<":", "x", "/">>

TailQuery ==
    <<"?", "q", "=", "1">>

DomainCom ==
    <<"c", "o", "m">>

DomainUpper ==
    <<"E", "x", "a", "m", "p", "l", "e", ".", "C", "O", "M">>

UrlPrefixes ==
    {PrefixHttps, PrefixHttp, PrefixUpper, PrefixFtp, PrefixScript, PrefixUser,
     PrefixSpoof, <<>>}

UrlHosts ==
    {HostExample, HostSub, HostEvilDash, HostUpper, HostEvil, HostBlank,
     HostEvilSuffix, <<>>}

UrlTails == {TailPath, TailPort, TailBadPort, TailQuery, <<>>}

UrlInputs == {Str(p \o h \o t) : p \in UrlPrefixes, h \in UrlHosts, t \in UrlTails}

DomainLists ==
    {<<>>, <<HostExample>>, <<DomainUpper>>, <<HostEvil, HostExample>>,
     <<DomainCom>>}

\* the second argument: omitted, or one of the lists
DomainArgs ==
    {[given |-> FALSE, list |-> <<>>]}
        \cup {[given |-> TRUE, list |-> l] : l \in DomainLists}

ValidateURL(url, allowedDomains) ==
    PureCall("validateURL", url, allowedDomains,
             validateURLOf(url, allowedDomains))

\* SecurityUtils.sanitizeConfig(config)
\* { customButtons: [{ text: '<b>"T&C"</b>', style: { textColor: '<b>"T&C"</b>' } }] }
ConfigButtons ==
    [k \in {"customButtons"} |->
        Arr(<<Obj([f \in {"text", "style"} |->
                     IF f = "text" THEN Str(TextMarkup)
                     ELSE Obj([g \in {"textColor"} |-> Str(TextMarkup)])])>>)]

\* { quickReplies: ['<b>"T&C"</b>', 'hi'] }
ConfigReplies ==
    [k \in {"quickReplies"} |-> Arr(<<Str(TextMarkup), Str(TextHi)>>)]

\* { security: { allowedDomains: ['<b>"T&C"</b>'], maxMessageLength: 7 } }
ConfigSecurity ==
    [k \in {"security"} |->
        Obj([f \in {"allowedDomains", "maxMessageLength"} |->
               IF f = "allowedDomains" THEN Arr(<<Str(TextMarkup)>>)
               ELSE Num(7)])]

\* { companyName: '<b>"T&C"</b>', zIndex: 7, autoOpen: true,
\*   onOpen: () => {}, logo: null, apiKey: undefined }
ConfigMixed ==
    [k \in {"companyName", "zIndex", "autoOpen", "onOpen", "logo", "apiKey"} |->
        CASE k = "companyName" -> Str(TextMarkup)
          [] k = "zIndex" -> Num(7)
          [] k = "autoOpen" -> Bool(TRUE)
          [] k = "onOpen" -> Fn
          [] k = "logo" -> Null
          [] k = "apiKey" -> Undefined]

\* { quickReplies: ['hi', null] }
ConfigNullReply ==
    [k \in {"quickReplies", "greeting"} |->
        IF k = "quickReplies" THEN Arr(<<Str(TextHi), Null>>) ELSE Str(TextHi)]

ConfigInputs ==
    {Obj(c) : c \in {ConfigButtons, ConfigReplies, ConfigSecurity, ConfigMixed,
                     ConfigNullReply}}
        \cup {Obj([k \in {"greeting"} |-> Str(s)]) : s \in HtmlTexts}

SanitizeConfig(cfg) ==
    PureCall("sanitizeConfig", cfg, <<>>, sanitizeConfigOf(cfg, hasWindow))

\* SecurityUtils.generateSecureId(length)
MaxIdLength == 2
ByteSamples == {0, 61, 62, 255}
RandomSamples == {0, 61}
IdCalls ==
    UNION {{[length |-> n, crypto |-> c, bytes |-> b, randoms |-> r] :
               c \in BOOLEAN, b \in [1..n -> ByteSamples],
               r \in [1..n -> RandomSamples]} : n \in 0..MaxIdLength}

GenerateSecureId(call) ==
    PureCall("generateSecureId", call, <<>>, generateSecureId(call, hasWindow))

PureNext ==
    \/ \E input \in HtmlInputs : SanitizeHTML(input)
    \/ \E input \in NonStrings : SanitizeHTML(input)
    \/ \E input \in HtmlInputs \cup LongInputs : SanitizeAttribute(input)
    \/ \E input \in NonStrings : SanitizeAttribute(input)
    \/ \E fileName \in NameInputs : SanitizeFileName(fileName)
    \/ \E fileName \in NonStrings : SanitizeFileName(fileName)
    \/ \E url \in UrlInputs, allowedDomains \in DomainArgs :
           ValidateURL(url, allowedDomains)
    \/ \E url \in NonStrings, allowedDomains \in DomainArgs :
           ValidateURL(url, allowedDomains)
    \/ \E cfg \in ConfigInputs : SanitizeConfig(cfg)
    \/ \E cfg \in NonStrings : SanitizeConfig(cfg)
    \/ \E call \in IdCalls : GenerateSecureId(call)

PureSpec == Init /\ [][PureNext]_vars

\* ReplySpec: one page with one widget whose page may register the
\* integration listener for 'message'; messages are typed and the replies
\* arrive
ReplyNext ==
    \/ \E cfg \in {ConfigGreeting, ConfigLocal} : Construct("w1", cfg)
    \/ On("w1", "message", "integration")
    \/ \E raw \in Texts : SendMessage("w1", raw)
    \/ \E idx \in 1..2 : BotReplyTimer("w1", idx)
    \/ \E ok \in BOOLEAN : IntegrationDone("w1", 1, ok, TextHi)
    \/ \E t \in WidgetTimes : Tick(t)

ReplySpec == WidgetInit /\ [][ReplyNext]_vars

\* SessionSpec: one widget driven through its input field and its public
\* API: texts of every kind are typed, listeners are registered and the
\* configuration is replaced
TextTooLong == [i \in 1..(MaxMessageLength + 1) |-> "a"]
TextPaddedMarkup == <<" ">> \o TextMarkup \o <<" ", " ">>
SendTexts == {TextPaddedMarkup, TextBlank, TextTooLong}

\* { greeting: '' }
ConfigNoGreeting ==
    [k \in {"greeting"} |-> Str(<<>>)]

SessionNext ==
    \/ \E cfg \in {ConfigGreeting, ConfigLocal} : Construct("w1", cfg)
    \/ On("w1", "message", "integration")
    \/ \E raw \in SendTexts : SendMessage("w1", raw)
    \/ BotReplyTimer("w1", 1)
    \/ Open("w1")
    \/ \E newConfig \in {EmptyMap, ConfigGreeting, ConfigNoGreeting} :
          UpdateConfig("w1", newConfig)
    \/ \E t \in WidgetTimes : Tick(t)

SessionSpec == WidgetInit /\ [][SessionNext]_vars

-----------------------------------------------------------------------------
(* Claims about the rate limiter *)

\* the admitted calls of a log that lie in the trailing window at nowv
AdmittedInWindow(log, nowv, windowMs) ==
    {i \in 1..Len(log) : log[i].ok /\ nowv - log[i].at < windowMs}

\* no cleanup() has dropped a timestamp that a window of windowMs still covers
Undisturbed(l, windowMs) == windowMs <= oneHour \/ ~cleanupRan[l]

C2_DeniedRecordsNothing ==
    [][(ret'.op = "checkLimit" /\ ~ret'.ok) => timestamps' = timestamps]_vars

\* C2 witness: a call with a positive limit has just been denied (the key
\* holds timestamps)
C2_Witness ==
    /\ ret.op = "checkLimit"
    /\ ~ret.ok
    /\ Lookup(timestamps[ret.limiter], ret.key) # <<>>

C4_KeysIndependent ==
    /\ \A l \in Limiters, k \in AllKeys : Lookup(timestamps[l], k) = solo[l][k]
    /\ ret.op = "checkLimit" => ret.ok = ret.soloOk

\* C4 witness: key b is admitted while key a holds as many timestamps as the
\* largest limit allows
C4_Witness ==
    /\ ret.op = "checkLimit" /\ ret.key = "b" /\ ret.ok
    /\ Len(Lookup(timestamps[ret.limiter], "a")) = 2
    /\ Len(Lookup(timestamps[ret.limiter], "b")) = 1

\* the timestamps of a list less than one hour old at nowv
Fresh(ts, nowv) == SelectSeq(ts, LAMBDA t : nowv - t < oneHour)

Stale(l, k) ==
    /\ k \in DOMAIN timestamps[l]
    /\ timestamps[l][k] # <<>>
    /\ now - timestamps[l][k][Len(timestamps[l][k])] > oneHour

\* C6 as stated: in every execution a key whose most recent timestamp has
\* become more than one hour old is eventually removed by periodic cleanup.
C6_Original ==
    \A l \in Limiters, k \in AllKeys : Stale(l, k) ~> ~Stale(l, k)

\* C6 amended: the same, in an environment where a window exists (the only
\* environment in which the cleanup interval is registered).
C6_ReclaimedWithWindow ==
    \A l \in Limiters, k \in AllKeys :
        (hasWindow /\ Stale(l, k)) ~> ~Stale(l, k)

\* C6 witness: the interval callback has deleted a key of globalLimiter
C6_Witness ==
    /\ hasWindow
    /\ ret.op = "cleanup" /\ ret.limiter = "all"
    /\ <<"globalLimiter", "a">> \in ret.removed

-----------------------------------------------------------------------------
(* Claims about the widget handlers *)

\* C7 as stated: every message with sender 'user' in a widget's message
\* store (typed send, quick reply, file upload) was preceded, in the handler
\* that stored it, by a checkLimit call that returned true.
C7_UserMessagesLimited ==
    \A w \in Widgets : \A i \in 1..Len(messages[w]) :
        messages[w][i].sender = "user" => messages[w][i].limited

\* C7 witness: sendQuickReply has stored a user message and no checkLimit
\* call has been made on any limiter
C7_Witness ==
    /\ \E i \in 1..Len(messages["w1"]) :
          /\ messages["w1"][i].sender = "user"
          /\ messages["w1"][i].via = "sendQuickReply"
    /\ \A l \in Limiters, k \in AllKeys : calls[l][k] = <<>>

\* C8 as stated: every outbound call to the external endpoint (chat POST,
\* upload POST, analytics POST) is issued only after a rate-limiter check for
\* it returned true, and only to a URL that validateURL accepted.
C8_OutboundGated ==
    \A o \in outbound : o.limited /\ o.validated

\* C8 witness: an analytics POST has been issued although no checkLimit call
\* has been made on any limiter
C8_Witness ==
    /\ \E o \in outbound : o.kind = "analytics" /\ o.validated /\ ~o.limited
    /\ \A l \in Limiters, k \in AllKeys : calls[l][k] = <<>>

\* the limit the configuration of widget w asks limiter l to enforce
ConfiguredLimit(w, l) ==
    LET option == IF l = "uploadLimiter" THEN "uploadRateLimit"
                  ELSE "messageRateLimit"
        default == IF l = "uploadLimiter" THEN UploadLimit ELSE MessageLimit
    IN  IF option \in DOMAIN config[w] /\ config[w][option].t = "number"
        THEN config[w][option].v
        ELSE default

\* C9 as stated: the limit a widget enforces on message sends is its
\* configured messageRateLimit and the limit on uploads its configured
\* uploadRateLimit; 10 and 3 are used only when the option is not supplied.
C9_LimitsConfigurable ==
    (ret.op = "checkLimit" /\ ret.widget \in Widgets) =>
        ret.limit = ConfiguredLimit(ret.widget, ret.limiter)

\* C9 witness: a widget configured with messageRateLimit 2 has had a third
\* typed message admitted within one minute
C9_Witness ==
    /\ ret.op = "checkLimit" /\ ret.widget = "w1" /\ ret.ok
    /\ ret.limiter = "messageLimiter"
    /\ ConfiguredLimit("w1", "messageLimiter") = 2
    /\ Cardinality(AdmittedInWindow(calls["messageLimiter"]["user"], now,
                                    MessageWindowMs)) = 3

\* the times of the admitted calls of a log, in order
AdmittedTimes(log) ==
    LET admitted == SelectSeq(log, LAMBDA c : c.ok)
    IN  [i \in 1..Len(admitted) |-> admitted[i].at]

\* the admitted calls of limiter l, under any key, in the trailing window
AdmittedByAll(l, windowMs) ==
    {ki \in AllKeys \X (1..(MessageLimit + MaxExtraCalls + 1)) :
        ki[2] \in AdmittedInWindow(calls[l][ki[1]], now, windowMs)}

-----------------------------------------------------------------------------
(* Claims about the sanitizers and validators *)

\* the five entities of SanitizedText
Entities == {AmpEntity, LtEntity, GtEntity, QuotEntity, AposEntity}

\* one of the five entities starts at position i of s
EntityAt(s, i) ==
    \E ent \in Entities :
        /\ i + Len(ent) - 1 <= Len(s)
        /\ SubSeq(s, i, i + Len(ent) - 1) = ent

\* s has no raw < > " ' and every & in it begins one of the five entities
IsSanitizedText(s) ==
    \A i \in 1..Len(s) :
        /\ s[i] \notin {"<", ">", "\"", "'"}
        /\ s[i] = "&" => EntityAt(s, i)

\* C11 as stated: for every string, sanitizeHTML returns a string with none
\* of the raw characters < > " ' in which every & begins one of the five
\* entities; a non-string or empty input yields the empty string.
C11_SanitizedText ==
    ret.op = "sanitizeHTML" =>
        /\ IsSanitizedText(ret.output)
        /\ (ret.input.t # "string" \/ ret.input.v = <<>>) => ret.output = <<>>

\* C11 witness: in a browser sanitizeHTML has returned a text that still
\* holds a raw quote character
C11_Witness ==
    /\ ret.op = "sanitizeHTML"
    /\ hasWindow
    /\ ret.input.t = "string"
    /\ \E i \in 1..Len(ret.output) : ret.output[i] \in {"\"", "'"}
\* C12 as stated: sanitizeHTML and sanitizeAttribute are environment-
\* independent: the result computed where a document exists is the result
\* computed where none exists.
C12_EnvironmentIndependent ==
    /\ ret.op = "sanitizeHTML" =>
          ret.output = sanitizeHTMLOf(ret.input, ~hasWindow)
    /\ ret.op = "sanitizeAttribute" =>
          ret.output = sanitizeAttributeOf(ret.input)

\* C12 witness: in a browser sanitizeHTML has returned, for a text with an
\* apostrophe, something else than it returns without a document
C12_Witness ==
    /\ ret.op = "sanitizeHTML"
    /\ hasWindow
    /\ ret.input.t = "string"
    /\ ret.input.v = <<"a", "'">>
    /\ ret.output = <<"a", "'">>
    /\ sanitizeHTMLOf(ret.input, FALSE) = <<"a">> \o AposEntity

\* C13: sanitizeAttribute(s) is at most 1000 characters long and is still
\* sanitized text (no raw < > " ' and every & begins one complete entity),
\* also when the substituted string was longer than the cap and was cut.
C13_AttributeText ==
    ret.op = "sanitizeAttribute" =>
        /\ Len(ret.output) <= MaxAttributeLength
        /\ IsSanitizedText(ret.output)

\* a 999-character text followed by one "<": the substituted string is 1003
\* characters long and the cut falls inside the entity
C13_Witness ==
    /\ ret.op = "sanitizeAttribute"
    /\ ret.input.t = "string"
    /\ Len(ret.input.v) = MaxAttributeLength
    /\ ret.input.v[MaxAttributeLength] = "<"
    /\ Len(Escape(ret.input.v, TRUE)) > MaxAttributeLength
    /\ Len(ret.output) = MaxAttributeLength
    /\ ret.output[MaxAttributeLength] = "&"

\* s holds the pair p[1], p[2] at adjacent positions
HasPair(s, p) == \E i \in 1..(Len(s) - 1) : s[i] = p[1] /\ s[i + 1] = p[2]

HasChar(s, c) == \E i \in 1..Len(s) : s[i] = c

\* C14: for every input, non-strings, the empty string, whitespace-only
\* strings and strings of dots and separators included, sanitizeFileName
\* returns a non-empty string with no "/", no "\" and no ".." in it.
C14_SafeFileName ==
    ret.op = "sanitizeFileName" =>
        /\ ret.output # <<>>
        /\ ~HasChar(ret.output, "/")
        /\ ~HasChar(ret.output, "\\")
        /\ ~HasPair(ret.output, <<".", ".">>)

\* a name holding a separator and two pairs of dots has been sanitized
C14_Witness ==
    /\ ret.op = "sanitizeFileName"
    /\ ret.input.t = "string"
    /\ ret.input.v = <<"a", ".", ".", "/">>
    /\ ret.output = <<"a", "_", "_">>

\* C15: for every input string the name returned by sanitizeFileName does
\* not begin with a dot and is at most 255 characters long.
C15_NoLeadingDot ==
    (ret.op = "sanitizeFileName" /\ ret.input.t = "string") =>
        /\ Len(ret.output) <= MaxFileNameLength
        /\ ret.output[1] # "."

\* " .a": the leading-dot pattern does not match behind the blank, and the
\* final trim then removes the blank
C15_Witness ==
    /\ ret.op = "sanitizeFileName"
    /\ ret.input.t = "string"
    /\ ret.input.v = <<" ", ".", "a">>
    /\ ret.output = <<".", "a">>

\* s ends with the characters of t
HasSuffix(s, t) ==
    Len(t) <= Len(s) /\ \A i \in 1..Len(t) : s[Len(s) - Len(t) + i] = t[i]

\* C16: validateURL returns a boolean for every input (it never throws), and
\* it returns true exactly when url is a non-empty string that parses as a
\* URL, its scheme is http or https, and allowedDomains is omitted or empty or
\* the lower-cased host name equals a lower-cased allowed domain d or ends
\* with "." followed by d; evil-example.com does not match example.com.
C16_ValidURL ==
    ret.op = "validateURL" =>
        /\ ret.output \in BOOLEAN
        /\ ret.output <=>
              /\ ret.input.t = "string"
              /\ ret.input.v # <<>>
              /\ ParseURL(ret.input.v).ok
              /\ ParseURL(ret.input.v).protocol
                     \in {SchemeHttp \o <<":">>, SchemeHttps \o <<":">>}
              /\ \/ ~ret.extra.given
                 \/ ret.extra.list = <<>>
                 \/ \E i \in 1..Len(ret.extra.list) :
                       LET d == toLowerCase(ret.extra.list[i])
                           h == toLowerCase(ParseURL(ret.input.v).hostname)
                       IN  h = d \/ HasSuffix(h, <<".">> \o d)
        /\ ( /\ ret.input.t = "string"
             /\ ParseURL(ret.input.v).hostname = HostEvilDash
             /\ ret.extra.list = <<HostExample>> ) => ~ret.output

\* https://evil-example.com/chat has been refused for the allowed domain
\* example.com
C16_Witness ==
    /\ ret.op = "validateURL"
    /\ ret.input.t = "string"
    /\ ret.input.v = PrefixHttps \o HostEvilDash \o TailPath
    /\ ret.extra.given
    /\ ret.extra.list = <<HostExample>>
    /\ ~ret.output
    /\ validateURLOf(Str(PrefixHttps \o HostSub \o TailPath), ret.extra)

\* the value shapes sanitizeConfig recognizes
Recognized(value) ==
    value.t \in {"string", "number", "boolean", "array", "object"}

\* out is the sanitized form of the value in: a string is replaced by its
\* sanitized text, a number or boolean is kept, an array or object holds the
\* sanitized forms of its recognized members and nothing else
RECURSIVE SanitizedForm(_, _, _)
SanitizedForm(in, out, hasDocument) ==
    /\ out.t = in.t
    /\ CASE in.t = "string" -> out.v = sanitizeHTML(in.v, hasDocument)
         [] in.t \in {"number", "boolean"} -> out.v = in.v
         [] in.t = "array" ->
               LET known == SelectSeq(in.v, Recognized)
               IN  /\ Len(out.v) = Len(known)
                   /\ \A i \in 1..Len(known) :
                         SanitizedForm(known[i], out.v[i], hasDocument)
         [] in.t = "object" ->
               /\ DOMAIN out.v = {k \in DOMAIN in.v : Recognized(in.v[k])}
               /\ \A k \in DOMAIN out.v :
                     SanitizedForm(in.v[k], out.v[k], hasDocument)

\* C17: in the output of sanitizeConfig, at every depth, every string (the
\* elements of arrays and the fields of objects inside arrays included) is
\* the sanitized form of the input string, numbers and booleans are
\* unchanged, and no function, null or undefined appears anywhere.
C17_ConfigSanitized ==
    (ret.op = "sanitizeConfig" /\ ret.input.t = "object") =>
        SanitizedForm(ret.input, ret.output, hasWindow)

\* the text of a custom button has been returned as it was supplied
C17_Witness ==
    /\ ret.op = "sanitizeConfig"
    /\ ret.input.t = "object"
    /\ DOMAIN ret.input.v = {"customButtons"}
    /\ ret.output.v["customButtons"].v[1].v["text"].v = TextMarkup
    /\ sanitizeHTML(TextMarkup, hasWindow) # TextMarkup

\* C23: generateSecureId uses the cryptographic source whenever the
\* environment has one, takes the fallback only where there is none, and in
\* both branches returns exactly `length` characters of A-Z a-z 0-9.
C23_SecureSourceUsed ==
    ret.op = "generateSecureId" =>
        /\ ret.input.crypto => ret.output.source = "crypto"
        /\ ret.output.source = "Math.random" => ~ret.input.crypto
        /\ Len(ret.output.id) = ret.input.length
        /\ \A i \in 1..Len(ret.output.id) :
              \E k \in 1..Len(IdChars) : ret.output.id[i] = IdChars[k]

\* without window, in an environment that has a cryptographic source, a
\* two-character id has been drawn from Math.random
C23_Witness ==
    /\ ret.op = "generateSecureId"
    /\ ~hasWindow
    /\ ret.input.crypto
    /\ ret.input.length = MaxIdLength
    /\ ret.output.source = "Math.random"
    /\ Len(ret.output.id) = MaxIdLength

-----------------------------------------------------------------------------
(* Claims about the configuration and the message store *)

\* C18: configuration is sanitized at ingestion. Whenever a widget's config
\* changes, at construction or in an updateConfig call, the new config is the
\* old one (the defaults at construction) overlaid with the sanitizeConfig
\* form of a caller-supplied object, so that every caller-supplied string
\* held in config has passed through sanitizeConfig.
C18_SanitizedAtIngestion ==
    [][\A w \in Widgets :
          config'[w] # config[w] =>
              \E cfg \in Configs \cup NewConfigs :
                  config'[w] =
                      Merge(IF constructed[w] THEN config[w] ELSE getDefaultConfig,
                            sanitizeConfig(cfg, hasWindow))]_vars

\* after updateConfig({ greeting: '<b>"T&C"</b>' }) the config holds the
\* markup as it was supplied
C18_Witness ==
    /\ constructed["w1"]
    /\ ret.op = "updateConfig"
    /\ config["w1"]["greeting"].v = TextMarkup
    /\ sanitizeHTML(TextMarkup, hasWindow) # TextMarkup

\* the texts supplied from outside on each path: the configured greetings,
\* quick replies and offline messages, the typed messages (trimmed by the
\* handler), and the responses of the endpoint; where none is supplied the
\* path uses its built-in text
SuppliedConfigs == Configs \cup NewConfigs \cup {ConfigShared}

SuppliedGreetings ==
    {GreetingDefault}
        \cup {cfg["greeting"].v : cfg \in {c \in SuppliedConfigs : "greeting" \in DOMAIN c}}

SuppliedQuickReplies ==
    UNION {{cfg["quickReplies"].v[i].v : i \in 1..Len(cfg["quickReplies"].v)} :
              cfg \in {c \in SuppliedConfigs : "quickReplies" \in DOMAIN c}}

SuppliedTyped == {Trim(t) : t \in Texts}

SuppliedResponses == {TextMarkup, TextHi, MsgReceivedDefault, MsgOfflineDefault}

OnceSanitized(texts) == {sanitizeHTML(t, hasWindow) : t \in texts}

\* C19: sanitization is applied exactly once on every path: the text of the
\* greeting, of a typed message, of a quick reply, of an API response or
\* offline message in the conversation, and the text of a quick reply sent to
\* the endpoint, is the supplied text sanitized one time.
C19_SanitizedOnce ==
    \A w \in Widgets :
        /\ \A i \in 1..Len(messages[w]) :
              LET m == messages[w][i]
              IN  /\ m.via = "init" => m.text \in OnceSanitized(SuppliedGreetings)
                  /\ m.via = "sendMessage" => m.text \in OnceSanitized(SuppliedTyped)
                  /\ m.via = "sendQuickReply" =>
                        m.text \in OnceSanitized(SuppliedQuickReplies)
                  /\ m.via = "sendToAPI" =>
                        m.text \in OnceSanitized(SuppliedResponses)
        /\ \A i \in 1..Len(inflight[w]) :
              inflight[w][i].kind = "chat" =>
                  inflight[w][i].text \in OnceSanitized(SuppliedQuickReplies)

\* the quick reply '<b>"T&C"</b>' has been clicked and is stored sanitized
\* twice: once in the constructor's sanitizeConfig, once in sendQuickReply
C19_Witness ==
    /\ constructed["w1"]
    /\ ret.op = "sendQuickReply"
    /\ \E i \in 1..Len(messages["w1"]) :
          /\ messages["w1"][i].via = "sendQuickReply"
          /\ messages["w1"][i].text =
                sanitizeHTML(sanitizeHTML(TextMarkup, hasWindow), hasWindow)
          /\ messages["w1"][i].text # sanitizeHTML(TextMarkup, hasWindow)

\* new is old, or old with exactly one message appended at the end
AppendsAtMostOne(old, new) ==
    \/ new = old
    \/ /\ Len(new) = Len(old) + 1
       /\ SubSeq(new, 1, Len(old)) = old

\* C20: the message store is append-only. Every operation on a widget other
\* than destroy() leaves its store unchanged or appends exactly one message
\* at the end, so that no stored message is modified, removed or reordered;
\* destroy() leaves the store empty.
C20_AppendOnly ==
    [][\A w \in Widgets :
          IF ret'.op = "destroy" /\ ret'.widget = w
          THEN messages'[w] = <<>>
          ELSE AppendsAtMostOne(messages[w], messages'[w])]_vars

\* updateConfig has run on a widget whose typed message had been admitted
\* and stored: the store holds the greeting only
C20_Witness ==
    /\ hasWindow
    /\ constructed["w1"]
    /\ ret.op = "updateConfig"
    /\ \E i \in 1..Len(calls["messageLimiter"]["user"]) :
          calls["messageLimiter"]["user"][i].ok
    /\ Len(timers["w1"]) > 0
    /\ \A i \in 1..Len(messages["w1"]) : messages["w1"][i].via = "init"

\* the user messages of widget w admitted by sendMessage, the bot messages
\* added in reply to them, and the replies still to come
AdmittedUserMessages(w) ==
    {i \in 1..Len(messages[w]) :
        messages[w][i].via = "sendMessage" /\ messages[w][i].sender = "user"}

Replies(w) ==
    {i \in 1..Len(messages[w]) :
        /\ messages[w][i].sender = "bot"
        /\ messages[w][i].via \in {"addBotResponse", "integration"}}

FailedReplies(w) ==
    {i \in 1..Len(messages[w]) :
        messages[w][i].via = "showError" /\ messages[w][i].text = MsgWentWrong}

PendingReplies(w) == Len(timers[w]) + Len(inflight[w])

\* C21: users receive exactly one response per message. For every user
\* message admitted by sendMessage exactly one bot message is added in reply
\* or is still to come: never none, and never an automatic reply in addition
\* to the reply of the 'message'-event integration.
C21_OneReplyPerMessage ==
    \A w \in Widgets :
        Cardinality(Replies(w)) + Cardinality(FailedReplies(w)) + PendingReplies(w)
            = Cardinality(AdmittedUserMessages(w))

\* one typed message has been answered twice: by the integration listener
\* and by the automatic reply of the timer
C21_Witness ==
    /\ Listens("w1", "message", "integration")
    /\ Cardinality(AdmittedUserMessages("w1")) = 1
    /\ \E i, j \in Replies("w1") :
          /\ messages["w1"][i].via = "integration"
          /\ messages["w1"][j].via = "addBotResponse"
    /\ PendingReplies("w1") = 0

-----------------------------------------------------------------------------
(* Claims about the widget's life cycle *)

\* C22: the widget is SSR safe. Where window and document are absent, after
\* construction with any feature flags and any calls of open, close,
\* updateConfig and destroy there is no container, no outbound call has been
\* issued, isOpen is false and the message store is empty.
C22_SsrSafe ==
    ~hasWindow =>
        \A w \in Widgets :
            /\ ~container[w].present
            /\ ~isOpen[w]
            /\ messages[w] = <<>>
            /\ \A call \in outbound : call.widget # w

\* without window and document, new AdvancedChatbotCore({ apiUrl, trackEvents:
\* true, ... }) has posted 'widget_loaded' to the analytics endpoint
C22_Witness ==
    /\ ~hasWindow
    /\ constructed["w1"]
    /\ ret.op = "constructor"
    /\ Truthy(config["w1"], "trackEvents")
    /\ \E call \in outbound : call.widget = "w1" /\ call.kind = "analytics"

(***************************************************************************)
(* Claims about the limiter's window and storage                           *)
(***************************************************************************)

\* the timestamps of ts the window of a call at nowv keeps when the boundary
\* now - windowMs itself is inside the window
AtOrAfter(ts, nowv, windowMs) == SelectSeq(ts, LAMBDA t : t >= nowv - windowMs)

\* C24: a checkLimit call at time now counts exactly the stored timestamps
\* t >= now - windowMs, the one equal to now - windowMs included: it is
\* admitted iff fewer than limit of them exist, and an admitted call stores
\* exactly those timestamps followed by now.
C24_BoundaryKept ==
    [][ret'.op = "checkLimit" =>
         LET kept == AtOrAfter(Lookup(timestamps[ret'.limiter], ret'.key),
                               now, ret'.windowMs)
         IN  /\ ret'.ok = (Len(kept) < ret'.limit)
             /\ ret'.ok =>
                  timestamps'[ret'.limiter][ret'.key] = Append(kept, now)]_vars

\* a call has just been decided with a stored timestamp exactly windowMs old
C24_Witness ==
    /\ ret.op = "checkLimit"
    /\ LET log == calls[ret.limiter][ret.key]
       IN  /\ Len(log) >= 2
           /\ \E i \in 1..(Len(log) - 1) :
                 /\ log[i].ok
                 /\ log[Len(log)].at - log[i].at = log[Len(log)].windowMs

-----------------------------------------------------------------------------
(* Claims about the send pipeline *)

-----------------------------------------------------------------------------
(* Claims about the limiter's stored lists *)

Ascending(ts) == \A i, j \in 1..Len(ts) : i < j => ts[i] <= ts[j]

\* C26: with a clock that never goes back, after any sequence of checkLimit
\* and cleanup calls the timestamp list of every key of every limiter is in
\* ascending (non-decreasing) order.
C26_Ascending ==
    \A l \in Limiters : \A k \in DOMAIN timestamps[l] : Ascending(timestamps[l][k])

\* cleanup has run on the limiter and calls at different times after time 0
\* have been admitted on one key: its list holds two different times
C26_Witness ==
    /\ ret.op = "checkLimit"
    /\ cleanupRan[ret.limiter]
    /\ LET ts == Lookup(timestamps[ret.limiter], ret.key)
       IN  /\ Len(ts) >= 2
           /\ ts[1] < ts[Len(ts)]
           /\ ts[1] > 0

\* the list a limiter whose cleanup() is never called holds for a key after
\* the first n calls of the key's log
RECURSIVE NeverCleaned(_, _)
NeverCleaned(log, n) ==
    IF n = 0 THEN <<>>
    ELSE LET before == NeverCleaned(log, n - 1)
             m == IF before = <<>> THEN EmptyMap ELSE [k \in {"key"} |-> before]
         IN  Lookup(checkLimit(m, "key", log[n].limit, log[n].windowMs,
                               log[n].at).timestamps, "key")

\* what that limiter returns for the n-th call of the log
NeverCleanedOk(log, n) ==
    LET before == NeverCleaned(log, n - 1)
        m == IF before = <<>> THEN EmptyMap ELSE [k \in {"key"} |-> before]
    IN  checkLimit(m, "key", log[n].limit, log[n].windowMs, log[n].at).ok

\* C27: cleanup() is transparent to admission decisions for callers whose
\* windowMs is at most 3600000: every call of such a caller returns what a
\* limiter given the same calls at the same times, and never cleaned, returns.
C27_CleanupTransparent ==
    \A l \in Limiters : \A k \in DOMAIN calls[l] :
        LET log == calls[l][k]
        IN  (\A n \in 1..Len(log) : log[n].windowMs <= 3600000) =>
                \A n \in 1..Len(log) : log[n].ok = NeverCleanedOk(log, n)

\* a call with a window of one hour has been decided after cleanup ran, an
\* hour or more after the key's first admitted call, whose timestamp is gone
C27_Witness ==
    /\ ret.op = "checkLimit"
    /\ ret.ok
    /\ ret.windowMs = oneHour
    /\ cleanupRan[ret.limiter]
    /\ LET log == calls[ret.limiter][ret.key]
       IN  /\ Len(log) >= 2
           /\ log[1].ok
           /\ log[Len(log)].at - log[1].at >= oneHour
    /\ timestamps[ret.limiter][ret.key] = <<now>>

\* the largest limit passed so far on a key whose log is not empty
LargestLimit(log) ==
    CHOOSE x \in {log[n].limit : n \in 1..Len(log)} :
        \A n \in 1..Len(log) : log[n].limit <= x

-----------------------------------------------------------------------------
(* Claims about destruction and reconfiguration *)

\* destroy() has run on widget w in a page and init() has not run since
Destroyed(w) == constructed[w] /\ hasWindow /\ ~container[w].present

\* C29: destruction is final with respect to pending callbacks. Once
\* destroy() has returned, no callback scheduled or started before it (the
\* bot reply timer, the response or failure of a sendToAPI request, the
\* response of an upload) appends a message: the store of a destroyed widget
\* stays empty until the widget is initialised again.
C29_DestroyFinal ==
    \A w \in Widgets : Destroyed(w) => messages[w] = <<>>

\* a callback pending at the time of destroy() has run on the destroyed
\* widget
C29_Witness ==
    /\ Destroyed("w1")
    /\ ret.widget = "w1"
    /\ ret.op \in {"addBotResponse", "sendToAPI", "handleFileUpload"}
    /\ timers["w1"] = <<>>
    /\ inflight["w1"] = <<>>

\* C30: in a page updateConfig(newConfig) is a full reset of the widget.
\* When it returns no listener registered before through on() remains, the
\* widget is closed, the store holds exactly one bot greeting if the merged
\* configuration has a greeting and nothing otherwise, and the timestamps of
\* the rate limiters are what they were.
C30_FullReset ==
    [][(ret'.op = "updateConfig" /\ hasWindow) =>
          LET w == ret'.widget
          IN  /\ \A e \in Events : eventListeners'[w][e] = <<>>
              /\ ~isOpen'[w]
              /\ IF Truthy(config'[w], "greeting")
                 THEN /\ Len(messages'[w]) = 1
                      /\ messages'[w][1].sender = "bot"
                      /\ messages'[w][1].via = "init"
                      /\ messages'[w][1].text =
                            sanitizeHTML(config'[w]["greeting"].v, hasWindow)
                 ELSE messages'[w] = <<>>
              /\ timestamps' = timestamps]_vars

\* updateConfig has returned on a widget whose 'message' listener had been
\* called for an admitted send (its request is still in flight): the
\* listeners are gone, the store holds the greeting alone and the limiter
\* still holds the timestamp of the send
C30_Witness ==
    /\ ret.op = "updateConfig"
    /\ ret.widget = "w1"
    /\ hasWindow
    /\ inflight["w1"] # <<>>
    /\ ~Listens("w1", "message", "integration")
    /\ Len(messages["w1"]) = 1
    /\ Lookup(timestamps["messageLimiter"], UserKey("w1")) # <<>>

====
